---- MODULE Spec2Model ----
(***************************************************************************)
(* Model of the Guardian backend (julianstricker/Just-ai):                 *)
(*   - VoiceSessionManager  (backend/src/realtime/voice-session-manager.ts)*)
(*   - handleToolCall       (backend/src/realtime/tools.ts)                *)
(*   - CameraManager        (backend/src/cameras/camera-manager.ts)        *)
(*   - WakeWordDetector     (backend/src/cameras/wake-word-detector.ts)    *)
(*   - detectWakeWord       (backend/src/realtime/wakeword-service.ts)     *)
(*   - createAudioStream    (backend/src/audio/twoway-audio.ts)            *)
(* Node.js runs every handler to its next real suspension point (an await  *)
(* on I/O) without interleaving; an await on an already settled promise    *)
(* only yields to the microtask queue, so it does not end an atomic step.  *)
(***************************************************************************)
EXTENDS Integers, Sequences, FiniteSets, TLC

\* ------------------------------------------------------------------ bounds
MaxConns == 2       \* transport connections opened in one run
MaxEvents == 4      \* sessions started, inbound messages and clock ticks in one run, together
MaxChunks == 1      \* audio chunks the pump forwards per connection
MaxCalls == 3       \* attachCamera/detachCamera calls in one run
MaxIters == 2       \* iterations one wake-phrase loop starts
MaxStarts == 2      \* start() calls on one detector
MaxTicks == 3       \* ticks of one camera's capture timer
MaxPeople == 2      \* people detected in one capture
MaxUrlLen == 5      \* characters of a candidate URL after its rtsp:// prefix
MaxUpdates == 3     \* update calls issued on the store in one run
MaxClockMs == 12000 \* how far the clock of the watchdog runs goes

\* ------------------------------------------------------- program constants
IdleTimeoutMs == 8000          \* createStopTimer: setTimeout(handler, 8_000)
InactivityTimeoutMs == 5000    \* pumpInputAudio: inactivityTimeoutMs
TickMs == IdleTimeoutMs \div 2 \* granularity of the model's clock
MinWakeBytes == 1000      \* detectWakeWord: bytes below which a chunk is not transcribed
LimitBytes == 64000       \* detectWakeWord: bytes at which the collection ends (2 * 16000 * 2)
WatchdogIntervalMs == 1000     \* pumpInputAudio: setInterval(..., 1000)

Cameras == {"cam1", "cam2"}

\* Tool names the remote agent may put in a tool-call request.
ToolCatalogue == {"fetch_snapshot", "register_person", "pan_tilt_zoom", "get_latest_detection"}
ToolNames == ToolCatalogue \cup {"unregistered_tool"}

\* Inbound message kinds of the realtime transport (parsed.type).
PlainKinds == {"response.audio.delta", "response.completed", "response.output_text.delta"}
\* The tool names the modelled remote agent asks for: one that suspends and can
\* reject, one that answers at once, one outside the catalogue.
RequestedTools == {"fetch_snapshot", "get_latest_detection", "unregistered_tool"}
InboundMessages ==
    [type : PlainKinds, tool : {"-"}]
      \cup [type : {"response.output_tool_call"}, tool : RequestedTools]

\* Inbound frames the handler is not written for: text that is not JSON, a
\* tool-call request without its tool descriptor, a message of another kind.
UnexpectedMessages ==
    {[type |-> "unparseable", tool |-> "-"],
     [type |-> "response.output_tool_call", tool |-> "-"],
     [type |-> "session.created", tool |-> "-"]}

VARIABLES
    \* ---- VoiceSessionManager
    activeSessions,   \* Map<cameraId, Timeout>: camera -> id of the timer stored for it
    stopTimers,       \* the idle-expiry timers that are pending (armed, not cleared, not fired)
    conns,            \* the WebSocket connections created so far, by index
    pumps,            \* pumpInputAudio task of each connection, by index
    pendingTools,     \* tool-call handlers suspended inside handleToolCall
    closedEmitted,    \* per camera: number of 'closed' notifications emitted
    now,              \* clock (ms)
    \* ---- CameraManager
    onvifCameras,     \* Map<id, Cam>: identity -> handle of its control connection
    wakeDetectors,    \* Map<id, WakeWordDetector>: identity -> handle of its detector
    snapshotTimers,   \* Map<id, Timeout>: identity -> handle of its capture timer
    liveCams,         \* control connections created and not released
    detectors,        \* detectors whose loop task has not exited, with their running flag
    captureTimers,    \* capture intervals set and not cleared
    calls,            \* attachCamera calls suspended at an await
    storeCameras,     \* StateStore.state.cameras: identity -> persisted descriptor
    storeLogs,        \* number of log entries appended to the store
    persists,         \* number of StateStore.persist() calls issued
    attachSeq,        \* number of control connections created so far (names the handles)
    callCount,        \* attachCamera/detachCamera calls made so far
    lastCall,         \* the latest call: its input and how it ended (history only)
    \* ---- createAudioStream (one call of the Resolver)
    resolver,         \* position of the call, its subprocesses, the stream it returned
    \* ---- WakeWordDetector (one detector)
    ww,               \* the detector: running flag, calls made on it, callback count
    wwLoops,          \* the loop tasks start() launched, by index
    \* ---- captureAndAnalyze (one attached camera)
    capture,          \* the capture timer and the cycles its ticks started, by index
    \* ---- handleDetections (one call)
    matching,         \* the call's inputs, its position, its lists, the store's last-seen fields
    \* ---- withCreds (one candidate of one createAudioStream call)
    injection,        \* the camera's credentials, the candidate URL, the URL handed on
    \* ---- StateStore (the file and the writes in flight)
    stateStore        \* in-memory state, file content, persist() calls in flight

vsVars == <<activeSessions, stopTimers, conns, pumps, pendingTools, closedEmitted, now>>
cmVars == <<onvifCameras, wakeDetectors, snapshotTimers, liveCams, detectors, captureTimers,
            calls, storeCameras, storeLogs, persists, attachSeq, callCount, lastCall>>

rsVars == <<resolver>>
wwVars == <<ww, wwLoops>>
capVars == <<capture>>
hdVars == <<matching>>
crVars == <<injection>>
ssVars == <<stateStore>>

\* What a step of one component leaves alone: the other components' state.
nonVsVars == <<cmVars, rsVars, wwVars, capVars, hdVars, crVars, ssVars>>
nonCmVars == <<vsVars, rsVars, wwVars, capVars, hdVars, crVars, ssVars>>
nonRsVars == <<vsVars, cmVars, wwVars, capVars, hdVars, crVars, ssVars>>
nonWwVars == <<vsVars, cmVars, rsVars, capVars, hdVars, crVars, ssVars>>
nonCapVars == <<vsVars, cmVars, rsVars, wwVars, hdVars, crVars, ssVars>>
nonHdVars == <<vsVars, cmVars, rsVars, wwVars, capVars, crVars, ssVars>>
nonCrVars == <<vsVars, cmVars, rsVars, wwVars, capVars, hdVars, ssVars>>
nonSsVars == <<vsVars, cmVars, rsVars, wwVars, capVars, hdVars, crVars>>

vars == <<vsVars, cmVars, rsVars, wwVars, capVars, hdVars, crVars, ssVars>>

\* ------------------------------------------------------------ Map helpers
MapHas(m, k) == k \in DOMAIN m
MapSet(m, k, v) == [x \in (DOMAIN m) \cup {k} |-> IF x = k THEN v ELSE m[x]]
MapDelete(m, k) == [x \in (DOMAIN m) \ {k} |-> m[x]]
EmptyMap == [x \in {} |-> TRUE]

ConnIds == 1..Len(conns)

RECURSIVE SumMsgs(_)
SumMsgs(n) == IF n = 0 THEN 0 ELSE conns[n].nMsgs + SumMsgs(n - 1)
\* Inbound messages received so far, over all connections.
MsgsReceived == SumMsgs(Len(conns))
\* What one run has consumed of its budget of environment events.
EventsSoFar == Len(conns) + MsgsReceived + (now \div TickMs)

\* ------------------------------------------------------------ tools.ts
\* handleToolCall without its default branch: an unknown name falls out of
\* the switch and the call answers undefined.
HandleToolCallNoDefault(name) ==
    CASE name = "fetch_snapshot" ->
           [output |-> "snapshot", suspends |-> TRUE, mayReject |-> TRUE]
      [] name = "register_person" ->
           [output |-> "person", suspends |-> TRUE, mayReject |-> TRUE]
      [] name = "pan_tilt_zoom" ->
           [output |-> "ok", suspends |-> TRUE, mayReject |-> FALSE]
      [] name = "get_latest_detection" ->
           [output |-> "latest_detection", suspends |-> FALSE, mayReject |-> FALSE]
      [] OTHER ->
           [output |-> "undefined", suspends |-> FALSE, mayReject |-> FALSE]

\* handleToolCall(name, args, context): what the call answers, whether it
\* suspends on store or remote I/O before answering, and whether it can reject.
HandleToolCall(name) ==
    CASE name = "fetch_snapshot" ->
           [output |-> "snapshot", suspends |-> TRUE, mayReject |-> TRUE]
      [] name = "register_person" ->
           [output |-> "person", suspends |-> TRUE, mayReject |-> TRUE]
      [] name = "pan_tilt_zoom" ->
           [output |-> "ok", suspends |-> TRUE, mayReject |-> FALSE]
      [] name = "get_latest_detection" ->
           [output |-> "latest_detection", suspends |-> FALSE, mayReject |-> FALSE]
      [] OTHER ->
           [output |-> "unknown_tool", suspends |-> FALSE, mayReject |-> FALSE]

ToolOutput(callId, result) ==
    [type |-> "response.tool_output", tool_call_id |-> callId, output |-> result]

\* ------------------------------------------------ voice-session-manager.ts
\* clearTimeout(t): the timer with that id is no longer pending.
ClearTimeout(timers, id) == {t \in timers : t.id # id}

\* createStopTimer(camera, handler): setTimeout(handler, 8_000); the handler closes ws.
\* A timer handle is named by its connection and the number of that connection's
\* inbound messages handled when it was armed (0: armed by startSession).
CreateStopTimer(ws, k) == [id |-> <<ws, k>>, ws |-> ws, armedAt |-> now]

\* ws.close(): starts the closing handshake of a connection that is not yet closing.
WsClose(state) == IF state \in {"CONNECTING", "OPEN"} THEN "CLOSING" ELSE state

\* The timer startSession clears before it opens the new connection.
ExistingCleared(cam) ==
    IF MapHas(activeSessions, cam) THEN ClearTimeout(stopTimers, activeSessions[cam])
    ELSE stopTimers

\* A connection still open or being opened for the camera.
HasLiveConn(cam) ==
    \E w \in ConnIds : conns[w].cam = cam /\ conns[w].readyState \in {"CONNECTING", "OPEN"}

NoMessage == [type |-> "none", tool |-> "-"]

\* new WebSocket(url, ...), lines 96-103. nMsgs and lastMsg are the number of
\* inbound messages handled so far and the latest of them, sent the ws.send
\* calls made so far; receiving tells whether the socket still delivers
\* inbound messages (from open until it fails or is closed; a close this side
\* asked for does not stop delivery); whileActive, lastCompletedAt and
\* idleClosedEarly record how the session was started and closed, rejected
\* counts the runs of the 'message' listener that ended in a rejected promise
\* (history only, nothing reads them back).
NewConn(cam) ==
    [cam |-> cam, readyState |-> "CONNECTING", receiving |-> FALSE,
     nMsgs |-> 0, lastMsg |-> NoMessage, sent |-> <<>>,
     whileActive |-> HasLiveConn(cam), idleClosedEarly |-> FALSE, lastCompletedAt |-> now,
     rejected |-> 0]

NewPump ==
    [pc |-> "acquiring", interval |-> FALSE, listening |-> FALSE, ffmpeg |-> FALSE,
     cleanupRegistered |-> FALSE, lastChunkTs |-> 0, chunks |-> 0,
     chunkAt |-> -1, commitAt |-> -1]

\* The body of startSession(camera), lines 32-89: no I/O await, so one step.
StartSessionBody(cam) ==
    /\ Len(conns) < MaxConns
    /\ EventsSoFar < MaxEvents
    /\ LET ws == Len(conns) + 1
           stopTimer == CreateStopTimer(ws, 0)
       IN /\ conns' = Append(conns, NewConn(cam))
          /\ pumps' = Append(pumps, NewPump)
          /\ stopTimers' = ExistingCleared(cam) \cup {stopTimer}
          /\ activeSessions' = MapSet(activeSessions, cam, stopTimer.id)
    /\ UNCHANGED <<pendingTools, closedEmitted, now>>

\* A call of startSession(camera).
StartSession(cam) ==
    /\ StartSessionBody(cam)
    /\ UNCHANGED nonVsVars

\* Lines 108-115: the session configuration; the instructions name the camera.
SessionUpdate(cam) ==
    [type |-> "session.update", modalities |-> {"text", "audio", "vision"},
     instructions |-> cam, tools |-> ToolCatalogue]

\* Lines 119-125: the initial response request.
ResponseCreate == [type |-> "response.create", modalities |-> {"audio"}]

\* The 'open' handler with its two sends swapped.
OpenMessagesSwapped(cam) == <<ResponseCreate, SessionUpdate(cam)>>

\* Lines 107-126: what the 'open' handler sends, in order.
OpenMessages(cam) == <<SessionUpdate(cam), ResponseCreate>>

\* ws.on('open'), lines 105-127.
OnOpen(w) ==
    /\ conns[w].readyState = "CONNECTING"
    /\ conns' = [conns EXCEPT ![w].readyState = "OPEN",
                              ![w].receiving = TRUE,
                              ![w].sent = @ \o OpenMessages(conns[w].cam)]
    /\ UNCHANGED <<activeSessions, stopTimers, pumps, pendingTools, closedEmitted, now>>
    /\ UNCHANGED nonVsVars

\* cleanup() of pumpInputAudio, lines 155-158: clears the watchdog interval and
\* removes every listener of the audio stream, the ones that kill ffmpeg included.
PumpCleanup(p) ==
    IF p.cleanupRegistered THEN [p EXCEPT !.interval = FALSE, !.listening = FALSE] ELSE p

\* ws.on('message'), lines 49-78, up to its first real suspension.
OnMessage(w, m) ==
    /\ conns[w].receiving
    /\ EventsSoFar < MaxEvents
    /\ LET cam == conns[w].cam
           callId == conns[w].nMsgs + 1
           r == HandleToolCall(m.tool)
           isTool == m.type = "response.output_tool_call"
           isDone == m.type = "response.completed"
           timer == CreateStopTimer(w, callId)
       IN /\ conns' = [conns EXCEPT
                ![w].nMsgs = @ + 1,
                ![w].lastMsg = m,
                ![w].lastCompletedAt = IF isDone THEN now ELSE @,
                ![w].sent = IF isTool /\ ~r.suspends
                            THEN Append(@, ToolOutput(callId, r.output)) ELSE @]
          /\ stopTimers' = IF isDone THEN stopTimers \cup {timer} ELSE stopTimers
          /\ activeSessions' = IF isDone THEN MapSet(activeSessions, cam, timer.id)
                               ELSE activeSessions
          /\ pendingTools' = IF isTool /\ r.suspends
                             THEN pendingTools \cup {[ws |-> w, callId |-> callId, name |-> m.tool]}
                             ELSE pendingTools
    /\ UNCHANGED <<pumps, closedEmitted, now>>
    /\ UNCHANGED nonVsVars

\* Whether the 'message' listener throws on the frame: JSON.parse at line 50
\* on text that is not JSON, parsed.tool.name at line 62 on a tool-call
\* request without descriptor. Neither is inside a try.
ListenerThrows(m) ==
    \/ m.type = "unparseable"
    \/ m.type = "response.output_tool_call" /\ m.tool = "-"

\* ws.on('message'), lines 49-78, on a frame it is not written for. The
\* listener is an async function nothing awaits: when it throws, its promise
\* is rejected and no handler is attached to it. A message of another kind
\* passes every if and is dropped.
OnUnexpectedMessage(w, m) ==
    /\ conns[w].receiving
    /\ EventsSoFar < MaxEvents
    /\ conns' = [conns EXCEPT
           ![w].nMsgs = @ + 1,
           ![w].lastMsg = m,
           ![w].rejected = IF ListenerThrows(m) THEN @ + 1 ELSE @]
    /\ UNCHANGED <<activeSessions, stopTimers, pumps, pendingTools, closedEmitted, now>>
    /\ UNCHANGED nonVsVars

\* The awaited handleToolCall settles: lines 70-76 run, or the handler rejects.
ToolReturn(p, ok) ==
    /\ p \in pendingTools
    /\ ok \/ HandleToolCall(p.name).mayReject
    /\ pendingTools' = pendingTools \ {p}
    /\ conns' = IF ok
                THEN [conns EXCEPT ![p.ws].sent =
                        Append(@, ToolOutput(p.callId, HandleToolCall(p.name).output))]
                ELSE conns
    /\ UNCHANGED <<activeSessions, stopTimers, pumps, closedEmitted, now>>
    /\ UNCHANGED nonVsVars

\* An idle-expiry timer fires, lines 42-45 and 55: its handler calls ws.close().
TimerFire(t) ==
    /\ t \in stopTimers
    /\ now >= t.armedAt + IdleTimeoutMs
    /\ stopTimers' = stopTimers \ {t}
    /\ conns' = [conns EXCEPT
           ![t.ws].readyState = WsClose(@),
           ![t.ws].idleClosedEarly =
                IF conns[t.ws].readyState \in {"CONNECTING", "OPEN"}
                THEN now - conns[t.ws].lastCompletedAt < IdleTimeoutMs ELSE @]
    /\ UNCHANGED <<activeSessions, pumps, pendingTools, closedEmitted, now>>
    /\ UNCHANGED nonVsVars

\* ws.on('error'), lines 129-131 and 161: the connection fails and starts closing.
OnError(w) ==
    /\ conns[w].readyState \in {"CONNECTING", "OPEN"}
    /\ conns' = [conns EXCEPT ![w].readyState = "CLOSING", ![w].receiving = FALSE]
    /\ pumps' = [pumps EXCEPT ![w] = PumpCleanup(@)]
    /\ UNCHANGED <<activeSessions, stopTimers, pendingTools, closedEmitted, now>>
    /\ UNCHANGED nonVsVars

\* The session record's timer the 'close' handler clears, lines 82-85.
CloseCleared(cam) ==
    IF MapHas(activeSessions, cam) THEN ClearTimeout(stopTimers, activeSessions[cam])
    ELSE stopTimers

\* ws.on('close'), lines 80-88 and 160: remote-, idle- or error-initiated.
OnClose(w) ==
    /\ conns[w].readyState # "CLOSED"
    /\ LET cam == conns[w].cam
       IN /\ conns' = [conns EXCEPT ![w].readyState = "CLOSED", ![w].receiving = FALSE]
          /\ stopTimers' = CloseCleared(cam)
          /\ activeSessions' = MapDelete(activeSessions, cam)
          /\ closedEmitted' = [closedEmitted EXCEPT ![cam] = @ + 1]
          /\ pumps' = [pumps EXCEPT ![w] = PumpCleanup(@)]
    /\ UNCHANGED <<pendingTools, now>>
    /\ UNCHANGED nonVsVars

\* pumpInputAudio, lines 144-173: createAudioStream settles (with a running
\* extraction subprocess, or with the empty stream); the watchdog interval and
\* the ws/audio listeners are installed.
PumpAcquired(w, live) ==
    /\ pumps[w].pc = "acquiring"
    /\ pumps' = [pumps EXCEPT ![w] =
           [@ EXCEPT !.pc = "pumping", !.interval = TRUE, !.listening = TRUE,
                     !.ffmpeg = live, !.cleanupRegistered = TRUE, !.lastChunkTs = now]]
    /\ UNCHANGED <<activeSessions, stopTimers, conns, pendingTools, closedEmitted, now>>
    /\ UNCHANGED nonVsVars

\* audioStream.on('data'), lines 163-173.
PumpData(w) ==
    /\ pumps[w].pc = "pumping"
    /\ pumps[w].listening
    /\ pumps[w].ffmpeg
    /\ pumps[w].chunks < MaxChunks
    /\ pumps' = [pumps EXCEPT ![w] =
           [@ EXCEPT !.lastChunkTs = now, !.chunks = @ + 1, !.chunkAt = now]]
    /\ conns' = IF conns[w].readyState = "OPEN"
                THEN [conns EXCEPT ![w].sent = Append(@, [type |-> "input_audio_buffer.append"])]
                ELSE conns
    /\ UNCHANGED <<activeSessions, stopTimers, pendingTools, closedEmitted, now>>
    /\ UNCHANGED nonVsVars

\* audioStream.on('end'), lines 175-180: the source ended; a last commit when
\* the connection is open, then cleanup().
PumpEnd(w) ==
    /\ pumps[w].pc = "pumping"
    /\ pumps[w].listening
    /\ pumps[w].ffmpeg
    /\ pumps' = [pumps EXCEPT ![w] =
           [@ EXCEPT !.interval = FALSE, !.listening = FALSE, !.ffmpeg = FALSE]]
    /\ conns' = IF conns[w].readyState = "OPEN"
                THEN [conns EXCEPT ![w].sent = Append(@, [type |-> "input_audio_buffer.commit"])]
                ELSE conns
    /\ UNCHANGED <<activeSessions, stopTimers, pendingTools, closedEmitted, now>>
    /\ UNCHANGED nonVsVars

\* The watchdog without line 151: the window does not start again.
AfterCommitNoReset(p) == [p EXCEPT !.commitAt = now]

\* Line 151: lastChunkTs = Date.now() after the commit (commitAt: history).
AfterCommit(p) == [p EXCEPT !.lastChunkTs = now, !.commitAt = now]

\* The setInterval callback of pumpInputAudio, lines 148-153.
Watchdog(w) ==
    /\ pumps[w].interval
    /\ conns[w].readyState = "OPEN"
    /\ now - pumps[w].lastChunkTs > InactivityTimeoutMs
    /\ conns' = [conns EXCEPT ![w].sent = Append(@, [type |-> "input_audio_buffer.commit"])]
    /\ pumps' = [pumps EXCEPT ![w] = AfterCommit(@)]
    /\ UNCHANGED <<activeSessions, stopTimers, pendingTools, closedEmitted, now>>
    /\ UNCHANGED nonVsVars

\* The clock advances.  Node runs the handler of a due timer in the next turn
\* of its event loop, so no further TickMs pass while an armed timer is due.
Tick ==
    /\ EventsSoFar < MaxEvents
    /\ \A t \in stopTimers : now < t.armedAt + IdleTimeoutMs
    /\ now' = now + TickMs
    /\ UNCHANGED <<activeSessions, stopTimers, conns, pumps, pendingTools, closedEmitted>>
    /\ UNCHANGED nonVsVars

\* The clock advances by one watchdog interval, as far as MaxClockMs; a due
\* idle timer fires first.
ClockSecond ==
    /\ now < MaxClockMs
    /\ \A t \in stopTimers : now < t.armedAt + IdleTimeoutMs
    /\ now' = now + WatchdogIntervalMs
    /\ UNCHANGED <<activeSessions, stopTimers, conns, pumps, pendingTools, closedEmitted>>
    /\ UNCHANGED nonVsVars

InitVS ==
    /\ activeSessions = EmptyMap
    /\ stopTimers = {}
    /\ conns = <<>>
    /\ pumps = <<>>
    /\ pendingTools = {}
    /\ closedEmitted = [c \in Cameras |-> 0]
    /\ now = 0

\* ------------------------------------------------------ camera-manager.ts
NoId == ""                \* a descriptor without identity (info.id undefined or "")
NoPort == -1              \* a descriptor without port (info.port undefined)
RtspPort == 554           \* the well-known streaming port
OnvifDefaultPort == 80    \* the well-known control port
OtherPort == 2020         \* an explicit control port a user may enter

\* The camera descriptors attachCamera is called with.
Descriptors ==
    [id : Cameras \cup {NoId}, creds : BOOLEAN, port : {NoPort, RtspPort, OtherPort}]

\* attachCamera without the identity check of line 49.
MissingIdUnchecked(info) == FALSE

\* attachCamera line 49: if (!info.id) throw.
MissingId(info) == info.id = NoId

\* attachCamera line 53: if (!info.username || !info.password) throw.
MissingCredentials(info) == ~info.creds

\* candidatePorts without the special case of line 67.
CandidatePortsAsGiven(info) ==
    IF info.port # NoPort THEN <<info.port>> ELSE <<OnvifDefaultPort>>

\* attachCamera lines 65-75: the control ports to try.
CandidatePorts(info) ==
    IF info.port # NoPort
    THEN IF info.port = RtspPort THEN <<OnvifDefaultPort>> ELSE <<info.port>>
    ELSE <<OnvifDefaultPort>>

Handle(id, gen) == [id |-> id, gen |-> gen]

\* detachCamera without its clearInterval: the capture timer is unregistered
\* and keeps ticking.
DetachCameraLeakTimer(id) ==
    [onvifCameras |-> MapDelete(onvifCameras, id),
     liveCams |-> IF MapHas(onvifCameras, id)
                  THEN liveCams \ {Handle(id, onvifCameras[id])} ELSE liveCams,
     wakeDetectors |-> MapDelete(wakeDetectors, id),
     detectors |-> IF MapHas(wakeDetectors, id)
                   THEN {IF d.id = id /\ d.gen = wakeDetectors[id]
                         THEN [d EXCEPT !.running = FALSE] ELSE d : d \in detectors}
                   ELSE detectors,
     snapshotTimers |-> MapDelete(snapshotTimers, id),
     captureTimers |-> captureTimers]

\* detachCamera(id), lines 164-184: the manager's maps and resources after it.
\* cam.removeAllListeners() releases the control connection, wake.stop() clears
\* the detector's running flag (its loop task exits at its next while check),
\* clearInterval stops the capture timer.
DetachCamera(id) ==
    [onvifCameras |-> MapDelete(onvifCameras, id),
     liveCams |-> IF MapHas(onvifCameras, id)
                  THEN liveCams \ {Handle(id, onvifCameras[id])} ELSE liveCams,
     wakeDetectors |-> MapDelete(wakeDetectors, id),
     detectors |-> IF MapHas(wakeDetectors, id)
                   THEN {IF d.id = id /\ d.gen = wakeDetectors[id]
                         THEN [d EXCEPT !.running = FALSE] ELSE d : d \in detectors}
                   ELSE detectors,
     snapshotTimers |-> MapDelete(snapshotTimers, id),
     captureTimers |-> IF MapHas(snapshotTimers, id)
                       THEN captureTimers \ {Handle(id, snapshotTimers[id])}
                       ELSE captureTimers]

\* StateStore.upsertCamera, state.ts lines 84-96: the in-memory camera list after it.
UpsertCamera(cameras, info, token) ==
    MapSet(cameras, info.id, [port |-> info.port, profileToken |-> token])

NoCall == [op |-> "none", info |-> [id |-> NoId, creds |-> FALSE, port |-> NoPort],
           outcome |-> "none", reattach |-> FALSE, gen |-> 0]

\* attachCamera lines 47-60 and the start of the connect at line 81: the
\* descriptor is checked, an attached identity is detached, the first connect
\* is issued.
AttachStartBody(info) ==
    /\ callCount < MaxCalls
    /\ callCount' = callCount + 1
    /\ IF MissingId(info) \/ MissingCredentials(info)
       THEN /\ lastCall' = [op |-> "attach", info |-> info, outcome |-> "threw",
                            reattach |-> FALSE, gen |-> 0]
            /\ UNCHANGED <<onvifCameras, wakeDetectors, snapshotTimers, liveCams,
                           detectors, captureTimers, calls>>
       ELSE LET re == MapHas(onvifCameras, info.id)
                after == IF re THEN DetachCamera(info.id)
                         ELSE [onvifCameras |-> onvifCameras, liveCams |-> liveCams,
                               wakeDetectors |-> wakeDetectors, detectors |-> detectors,
                               snapshotTimers |-> snapshotTimers,
                               captureTimers |-> captureTimers]
            IN /\ onvifCameras' = after.onvifCameras
               /\ liveCams' = after.liveCams
               /\ wakeDetectors' = after.wakeDetectors
               /\ detectors' = after.detectors
               /\ snapshotTimers' = after.snapshotTimers
               /\ captureTimers' = after.captureTimers
               /\ calls' = calls \cup {[n |-> callCount + 1, info |-> info, pc |-> "connect",
                                        ports |-> CandidatePorts(info),
                                        reattach |-> re, gen |-> 0]}
               /\ lastCall' = [op |-> "attach", info |-> info, outcome |-> "pending",
                               reattach |-> re, gen |-> 0]
    /\ UNCHANGED <<storeCameras, storeLogs, persists, attachSeq>>
    /\ UNCHANGED nonCmVars

\* A call of attachCamera made while no other attachCamera is suspended (a
\* descriptor that is rejected at once can come at any time).
AttachStart(info) ==
    /\ calls = {} \/ MissingId(info) \/ MissingCredentials(info)
    /\ AttachStartBody(info)

\* A call of attachCamera made at any time, also while others are suspended.
AttachOverlapping(info) == AttachStartBody(info)

\* attachCamera with the addLog of line 117 taken away.
AddLogDropped(n) == n

\* StateStore.addLog, state.ts lines 71-82: one entry is put on the log list.
AddLog(n) == n + 1

\* attachCamera lines 78-119: the connect on the next candidate port settles.
\* On success a corrected port is written to the store (line 103, awaited);
\* when the last candidate failed the error is logged to the store (line 117,
\* awaited) before it is thrown.
AttachConnect(c, ok) ==
    /\ c \in calls
    /\ c.pc = "connect"
    /\ LET port == Head(c.ports)
           changed == c.info.port # port
           info2 == [c.info EXCEPT !.port = port]
           gen == attachSeq + 1
       IN IF ok
          THEN /\ attachSeq' = gen
               /\ liveCams' = liveCams \cup {Handle(c.info.id, gen)}
               /\ IF changed
                  THEN /\ storeCameras' = UpsertCamera(storeCameras, info2, "none")
                       /\ persists' = persists + 1
                       /\ calls' = (calls \ {c}) \cup {[c EXCEPT !.info = info2, !.pc = "persistPort",
                                              !.gen = gen]}
                       /\ UNCHANGED onvifCameras
                  ELSE /\ onvifCameras' = MapSet(onvifCameras, c.info.id, gen)
                       /\ calls' = (calls \ {c}) \cup {[c EXCEPT !.pc = "profiles", !.gen = gen]}
                       /\ UNCHANGED <<storeCameras, persists>>
               /\ UNCHANGED storeLogs
          ELSE /\ IF Len(c.ports) > 1
                  THEN /\ calls' = (calls \ {c}) \cup {[c EXCEPT !.ports = Tail(c.ports)]}
                       /\ UNCHANGED <<storeLogs, persists>>
                  ELSE /\ calls' = (calls \ {c}) \cup {[c EXCEPT !.pc = "logFailure"]}
                       /\ storeLogs' = AddLog(storeLogs)
                       /\ persists' = persists + 1
               /\ UNCHANGED <<attachSeq, liveCams, storeCameras, onvifCameras>>
    /\ UNCHANGED <<wakeDetectors, snapshotTimers, detectors, captureTimers, callCount, lastCall>>
    /\ UNCHANGED nonCmVars

\* attachCamera lines 103-121: the store write of the corrected port settles
\* (a failed write is caught at line 106 and the attach goes on); the control
\* connection is registered.
AttachPersistPort(c) ==
    /\ c \in calls
    /\ c.pc = "persistPort"
    /\ onvifCameras' = MapSet(onvifCameras, c.info.id, c.gen)
    /\ calls' = (calls \ {c}) \cup {[c EXCEPT !.pc = "profiles"]}
    /\ UNCHANGED <<wakeDetectors, snapshotTimers, liveCams, detectors, captureTimers,
                   storeCameras, storeLogs, persists, attachSeq, callCount, lastCall>>
    /\ UNCHANGED nonCmVars

\* attachCamera lines 117-118: the error log is written, the error is thrown.
AttachLogFailure(c) ==
    /\ c \in calls
    /\ c.pc = "logFailure"
    /\ calls' = calls \ {c}
    /\ lastCall' = [op |-> "attach", info |-> c.info, outcome |-> "threw",
                    reattach |-> c.reattach, gen |-> 0]
    /\ UNCHANGED <<onvifCameras, wakeDetectors, snapshotTimers, liveCams, detectors,
                   captureTimers, storeCameras, storeLogs, persists, attachSeq, callCount>>
    /\ UNCHANGED nonCmVars

\* attachCamera lines 149-161: the detector is created, registered and started
\* (start() sets running and launches the loop), the capture interval is set
\* and registered.
AttachFinish(c) ==
    /\ wakeDetectors' = MapSet(wakeDetectors, c.info.id, c.gen)
    /\ detectors' = detectors \cup {[id |-> c.info.id, gen |-> c.gen, running |-> TRUE]}
    /\ snapshotTimers' = MapSet(snapshotTimers, c.info.id, c.gen)
    /\ captureTimers' = captureTimers \cup {Handle(c.info.id, c.gen)}
    /\ calls' = calls \ {c}
    /\ lastCall' = [op |-> "attach", info |-> c.info, outcome |-> "ok",
                    reattach |-> c.reattach, gen |-> c.gen]

\* attachCamera lines 126-143: the getProfiles callback. Without profiles the
\* attach finishes; with one, its token is written to the store (line 135, not
\* awaited) and getStreamUri is called.
AttachProfiles(c, hasProfiles) ==
    /\ c \in calls
    /\ c.pc = "profiles"
    /\ IF hasProfiles
       THEN /\ storeCameras' = UpsertCamera(storeCameras, c.info, "token")
            /\ persists' = persists + 1
            /\ calls' = (calls \ {c}) \cup {[c EXCEPT !.pc = "streamUri"]}
            /\ UNCHANGED <<wakeDetectors, detectors, snapshotTimers, captureTimers, lastCall>>
       ELSE /\ AttachFinish(c)
            /\ UNCHANGED <<storeCameras, persists>>
    /\ UNCHANGED <<onvifCameras, liveCams, storeLogs, attachSeq, callCount>>
    /\ UNCHANGED nonCmVars

\* attachCamera lines 137-161: the getStreamUri callback; the attach finishes.
AttachStreamUri(c) ==
    /\ c \in calls
    /\ c.pc = "streamUri"
    /\ AttachFinish(c)
    /\ UNCHANGED <<onvifCameras, liveCams, storeCameras, storeLogs, persists, attachSeq,
                   callCount>>
    /\ UNCHANGED nonCmVars

\* detachCamera with the try/catch of lines 167-171 taken away: a throwing
\* removeAllListeners ends the call.
DetachSurvivesUncaught(id, throws) == ~(throws /\ MapHas(onvifCameras, id))

\* detachCamera lines 166-171: cam.removeAllListeners() runs inside try/catch,
\* so the call goes on to the other releases whether or not it throws.
DetachSurvives(id, throws) == TRUE

\* A call of detachCamera(id), lines 164-184 (no await inside: one step).
\* throws: cam.removeAllListeners() raises. The outcome "warned" is a return
\* after the warning of line 170 was logged.
DetachCallBody(id, throws) ==
    /\ callCount < MaxCalls
    /\ callCount' = callCount + 1
    /\ IF DetachSurvives(id, throws)
       THEN LET after == DetachCamera(id)
            IN /\ onvifCameras' = after.onvifCameras
               /\ liveCams' = after.liveCams
               /\ wakeDetectors' = after.wakeDetectors
               /\ detectors' = after.detectors
               /\ snapshotTimers' = after.snapshotTimers
               /\ captureTimers' = after.captureTimers
               /\ lastCall' = [op |-> "detach",
                               info |-> [id |-> id, creds |-> FALSE, port |-> NoPort],
                               outcome |-> IF throws /\ MapHas(onvifCameras, id)
                                           THEN "warned" ELSE "ok",
                               reattach |-> FALSE, gen |-> 0]
       ELSE /\ lastCall' = [op |-> "detach",
                            info |-> [id |-> id, creds |-> FALSE, port |-> NoPort],
                            outcome |-> "threw", reattach |-> FALSE, gen |-> 0]
            /\ UNCHANGED <<onvifCameras, liveCams, wakeDetectors, detectors,
                           snapshotTimers, captureTimers>>
    /\ UNCHANGED <<calls, storeCameras, storeLogs, persists, attachSeq>>
    /\ UNCHANGED nonCmVars

\* A call of detachCamera made while no attachCamera is suspended.
DetachCall(id, throws) ==
    /\ calls = {}
    /\ DetachCallBody(id, throws)

\* A call of detachCamera made at any time.
DetachOverlapping(id, throws) == DetachCallBody(id, throws)

\* WakeWordDetector.loop, wake-word-detector.ts line 26: the while check of a
\* stopped detector fails and its loop task ends.
LoopExit(d) ==
    /\ d \in detectors
    /\ ~d.running
    /\ detectors' = detectors \ {d}
    /\ UNCHANGED <<onvifCameras, wakeDetectors, snapshotTimers, liveCams, captureTimers,
                   calls, storeCameras, storeLogs, persists, attachSeq, callCount, lastCall>>
    /\ UNCHANGED nonCmVars

\* The wake callback attachCamera gives the detector, lines 149-154, invoked by
\* the running loop of an attached camera: the event is logged to the store
\* and a voice session is started.
OnWake(d) ==
    /\ d \in detectors
    /\ d.running
    /\ storeLogs' = storeLogs + 1
    /\ persists' = persists + 1
    /\ StartSessionBody(d.id)
    /\ UNCHANGED <<onvifCameras, wakeDetectors, snapshotTimers, liveCams, detectors,
                   captureTimers, calls, storeCameras, attachSeq, callCount, lastCall>>
    /\ UNCHANGED <<rsVars, wwVars, capVars, hdVars, crVars, ssVars>>

InitCM ==
    /\ onvifCameras = EmptyMap
    /\ wakeDetectors = EmptyMap
    /\ snapshotTimers = EmptyMap
    /\ liveCams = {}
    /\ detectors = {}
    /\ captureTimers = {}
    /\ calls = {}
    /\ storeCameras = EmptyMap
    /\ storeLogs = 0
    /\ persists = 0
    /\ attachSeq = 0
    /\ callCount = 0
    /\ lastCall = NoCall

\* ------------------------------------------------- audio/twoway-audio.ts
\* baseCandidates with the camera's own URL put last.
BaseCandidatesDefaultsFirst(hasRtspUrl) ==
    <<"stream1", "stream2", "live/main", "live/sub">>
        \o (IF hasRtspUrl THEN <<"rtspUrl">> ELSE <<>>)

\* createAudioStream lines 13-19: the candidate URLs, the camera's own first
\* when it has one. camera.rtspAudioUrl is not read.
BaseCandidates(hasRtspUrl) ==
    (IF hasRtspUrl THEN <<"rtspUrl">> ELSE <<>>)
        \o <<"stream1", "stream2", "live/main", "live/sub">>

\* The transport loop of line 47 turned round.
TransportsUdpFirst == <<"udp", "tcp">>

\* Line 47: for (const transport of ['tcp', 'udp']).
Transports == <<"tcp", "udp">>
AudioMappingStrategies == <<"0:a:0", "0:a", "0:1">>

\* How the probe of one spawned subprocess settles, lines 82-132: first data,
\* the 3 s timeout, a spawn error, or the process closing without data.
ProbeOutcomes == {"data", "timeout", "error", "close"}

\* An attempt: indices of candidate, transport and mapping (the three nested
\* loops of lines 44-57).
FirstAttempt == [c |-> 1, t |-> 1, m |-> 1]
NoAttempt == [c |-> 0, t |-> 0, m |-> 0]

\* The attempt the loops reach after attempt a failed, NoAttempt when a was
\* the last one.
NextAttempt(a, cands) ==
    IF a.m < Len(AudioMappingStrategies) THEN [a EXCEPT !.m = @ + 1]
    ELSE IF a.t < Len(Transports) THEN [a EXCEPT !.t = @ + 1, !.m = 1]
    ELSE IF a.c < Len(cands) THEN [c |-> a.c + 1, t |-> 1, m |-> 1]
    ELSE NoAttempt

\* createAudioStream with line 156 taken away: a failed attempt is left alone.
KillFailedAttemptSkipped(running, a) == running

\* Line 156: ff.kill('SIGKILL') on the subprocess of a failed attempt.
KillFailedAttempt(running, a) == running \ {a}

\* createAudioStream with the hooks of lines 145-151 taken away.
KillOnStreamCloseSkipped(running, a) == running

\* Lines 145-151: the 'close' and 'error' listeners of the returned stream
\* kill the subprocess that feeds it.
KillOnStreamClose(running, a) == running \ {a}

\* Lines 60-80: what the subprocess of attempt a is spawned with: the source
\* URL, the transport and the stream mapping.
SpawnArgs(a, cands) ==
    [url |-> cands[a.c], transport |-> Transports[a.t],
     mapping |-> AudioMappingStrategies[a.m]]

\* No call made yet. running: the attempts whose subprocess is alive;
\* written: bytes were written to the returned stream; stream, ffExited and
\* lastOutcome record what happened to the returned stream and to the probes;
\* camera tells which URLs the descriptor has; spawned lists the arguments of
\* the subprocesses spawned so far.
IdleResolver ==
    [pc |-> "idle", cands |-> <<>>, attempt |-> NoAttempt, running |-> {},
     live |-> FALSE, written |-> FALSE, stream |-> "none", ffExited |-> FALSE,
     lastOutcome |-> "none",
     camera |-> [rtspUrl |-> FALSE, rtspAudioUrl |-> FALSE], spawned |-> <<>>]

\* createAudioStream(camera) up to its first await, lines 11-82: without
\* ffmpeg the empty stream is returned at once, otherwise the first attempt is
\* spawned and probed.
CreateAudioStream(hasRtspUrl, hasAudioUrl, hasFfmpeg) ==
    /\ resolver.pc = "idle"
    /\ LET camera == [rtspUrl |-> hasRtspUrl, rtspAudioUrl |-> hasAudioUrl]
           cands == BaseCandidates(hasRtspUrl)
       IN resolver' =
            IF hasFfmpeg
            THEN [resolver EXCEPT !.pc = "probing", !.cands = cands,
                                  !.attempt = FirstAttempt, !.running = {FirstAttempt},
                                  !.camera = camera,
                                  !.spawned = <<SpawnArgs(FirstAttempt, cands)>>]
            ELSE [resolver EXCEPT !.pc = "returned", !.stream = "open", !.camera = camera]
    /\ UNCHANGED nonRsVars

\* The probe of the current attempt settles, lines 82-163. With data the
\* stream is piped, the kill hooks are installed and the stream is returned;
\* otherwise the attempt is cleaned up and the next one is spawned, or, after
\* the last one, the empty stream is returned.
ProbeSettles(outcome) ==
    /\ resolver.pc = "probing"
    /\ LET a == resolver.attempt
           next == NextAttempt(a, resolver.cands)
           \* a subprocess that failed to spawn or has closed is gone by itself
           alive == IF outcome = "timeout" THEN resolver.running
                    ELSE resolver.running \ {a}
           cleaned == KillFailedAttempt(alive, a)
       IN resolver' =
            IF outcome = "data"
            THEN [resolver EXCEPT !.pc = "returned", !.live = TRUE, !.written = TRUE,
                                  !.stream = "open", !.lastOutcome = outcome]
            ELSE IF next = NoAttempt
            THEN [resolver EXCEPT !.pc = "returned", !.running = cleaned,
                                  !.stream = "open", !.lastOutcome = outcome]
            ELSE [resolver EXCEPT !.attempt = next, !.running = cleaned \cup {next},
                                  !.lastOutcome = outcome,
                                  !.spawned = Append(@, SpawnArgs(next, resolver.cands))]
    /\ UNCHANGED nonRsVars

\* The returned live stream is destroyed by its consumer or errors: it emits
\* 'error' and/or 'close', and the hooks of lines 145-151 run.
StreamCloses(how) ==
    /\ resolver.pc = "returned"
    /\ resolver.live
    /\ resolver.stream = "open"
    /\ resolver' = [resolver EXCEPT
           !.stream = how,
           !.running = KillOnStreamClose(@, resolver.attempt)]
    /\ UNCHANGED nonRsVars

\* The subprocess that feeds the returned stream exits by itself; the pipe
\* of line 136 does not end the stream.
SubprocessExits ==
    /\ resolver.pc = "returned"
    /\ resolver.attempt \in resolver.running
    /\ resolver' = [resolver EXCEPT !.running = @ \ {resolver.attempt}, !.ffExited = TRUE]
    /\ UNCHANGED nonRsVars

InitRS == resolver = IdleResolver

NextResolver ==
    \/ \E hasRtspUrl \in BOOLEAN, hasAudioUrl \in BOOLEAN, hasFfmpeg \in BOOLEAN :
          CreateAudioStream(hasRtspUrl, hasAudioUrl, hasFfmpeg)
    \/ \E outcome \in ProbeOutcomes : ProbeSettles(outcome)
    \/ \E how \in {"destroyed", "errored"} : StreamCloses(how)
    \/ SubprocessExits

\* ------------------------- wake-word-detector.ts and wakeword-service.ts
\* The characters transcripts and the wake phrase are made of.
Chars == {"h", "H", "i", "x"}
WakeWord == <<"H", "i">>

RECURSIVE SeqsUpTo(_)
SeqsUpTo(n) ==
    IF n = 0 THEN {<<>>}
    ELSE LET shorter == SeqsUpTo(n - 1)
         IN shorter \cup {Append(t, ch) : t \in shorter, ch \in Chars}

\* What the remote transcription answers: a text, or a failure. The texts
\* are those up to one character longer than the wake phrase, which lets the
\* phrase stand at the start, at the end, or broken up.
Transcripts == SeqsUpTo(Len(WakeWord) + 1)
TranscriptionResults ==
    [ok : {TRUE}, text : Transcripts] \cup [ok : {FALSE}, text : {<<>>}]

\* String.prototype.toLowerCase left out: the comparison is case-sensitive.
ToLowerCaseChIdentity(ch) == ch

\* String.prototype.toLowerCase on one character.
ToLowerCaseCh(ch) ==
    CASE ch = "H" -> "h"
      [] ch = "I" -> "i"
      [] ch = "X" -> "x"
      [] OTHER -> ch

ToLowerCase(text) == [k \in DOMAIN text |-> ToLowerCaseCh(text[k])]

\* String.prototype.includes.
Includes(text, part) ==
    \E k \in 0..(Len(text) - Len(part)) : SubSeq(text, k + 1, k + Len(part)) = part

\* detectWakeWord reduced to "something was transcribed".
DetectedOnAnyText(text) == Len(text) > 0

\* detectWakeWord lines 63-65: the transcript and the wake word are both
\* lower-cased, then compared by substring.
Detected(text) == Includes(ToLowerCase(text), ToLowerCase(WakeWord))

\* start() without the check of line 15.
StartNeverReturnsEarly(running) == FALSE

\* start() line 15: if (this.running) return.
StartReturnsEarly(running) == running

\* The loop's test of line 30 without its running part.
ShouldWakeIgnoringStop(detected, running) == detected

\* loop() line 30: if (detected && this.running).
ShouldWake(detected, running) == detected /\ running

\* loop() lines 36-39: an error of the iteration is caught and followed by the
\* 1 s pause.
CatchTarget == "errorPause"

\* loop() from its while check (line 26) to its next await (line 28): a new
\* iteration starts with a createAudioStream call, or the task ends.
NextIteration(loop, running) ==
    IF running
    THEN [loop EXCEPT !.pc = "acquiring", !.iter = @ + 1, !.ffmpeg = FALSE]
    ELSE [loop EXCEPT !.pc = "exited", !.ffmpeg = FALSE]

\* The while check can be taken: the loop is stopped, or may start another
\* iteration.
MayIterate(loop) == ~ww.running \/ loop.iter < MaxIters

\* start(), lines 14-19; loop() runs up to its first await in the same step.
\* CameraManager never restarts a stopped detector: detachCamera drops it
\* (camera-manager.ts line 177) and attachCamera makes a new one.
StartCallBody ==
    /\ ww.startCalls < MaxStarts
    /\ IF StartReturnsEarly(ww.running)
       THEN /\ ww' = [ww EXCEPT !.startCalls = @ + 1]
            /\ UNCHANGED wwLoops
       ELSE /\ ww' = [ww EXCEPT !.startCalls = @ + 1, !.running = TRUE]
            /\ wwLoops' = Append(wwLoops,
                   [pc |-> "acquiring", iter |-> 1, ffmpeg |-> FALSE, heard |-> "none",
                    transcript |-> <<>>, nFailures |-> 0, collected |-> 0])
    /\ UNCHANGED nonWwVars

StartCall ==
    /\ ~ww.stopped
    /\ StartCallBody

\* start() called on a detector that stop() was called on before, as the
\* class allows.
StartAfterStop ==
    /\ ww.stopped
    /\ StartCallBody

\* stop(), lines 21-23.
StopCall ==
    /\ ww.running
    /\ ww' = [ww EXCEPT !.running = FALSE, !.stopped = TRUE]
    /\ UNCHANGED wwLoops
    /\ UNCHANGED nonWwVars

\* loop() line 28 settles: createAudioStream returned a live stream (its
\* subprocess running) or the empty one; detectWakeWord starts collecting
\* into a new buffer (wakeword-service.ts lines 12-13).
LoopAcquired(l, live) ==
    /\ wwLoops[l].pc = "acquiring"
    /\ wwLoops' = [wwLoops EXCEPT ![l].pc = "collecting", ![l].ffmpeg = live,
                                  ![l].collected = 0]
    /\ UNCHANGED ww
    /\ UNCHANGED nonWwVars

\* What one collection can hold: nothing, one byte less than the minimum, the
\* minimum, the byte limit.
ChunkLengths == {0, MinWakeBytes - 1, MinWakeBytes, LimitBytes}

\* detectWakeWord without the minimum of lines 46-49: any bytes are sent.
EnoughAudioNoMinimum(bytes) == bytes # 0

\* detectWakeWord lines 43-49: the call goes on to the transcription when
\* the collection is not empty and not shorter than the minimum.
EnoughAudio(bytes) == bytes # 0 /\ ~(bytes < MinWakeBytes)

\* detectWakeWord lines 15-51: the collection ends (byte limit, or the 3 s
\* timeout). The empty stream gives no bytes; a live stream gives at least the
\* chunk the probe read. Without bytes, or with fewer than 1000, the call
\* returns false at line 43 or 48, before the try/finally that destroys the
\* stream: the subprocess of a live stream is left running.
LoopCollected(l, bytes) ==
    /\ wwLoops[l].pc = "collecting"
    /\ bytes = 0 <=> ~wwLoops[l].ffmpeg
    /\ LET got == [wwLoops[l] EXCEPT !.collected = bytes]
       IN IF EnoughAudio(bytes)
          THEN /\ wwLoops' = [wwLoops EXCEPT ![l] = [got EXCEPT !.pc = "transcribing"]]
               /\ UNCHANGED ww
          ELSE /\ MayIterate(wwLoops[l])
               /\ wwLoops' = [wwLoops EXCEPT ![l] = NextIteration(got, ww.running)]
               /\ ww' = [ww EXCEPT !.orphans = IF wwLoops[l].ffmpeg THEN @ + 1 ELSE @]
    /\ UNCHANGED nonWwVars

\* detectWakeWord lines 53-84 and loop() lines 29-32: the transcription
\* settles, the stream is destroyed (finally), the result is compared, and on
\* a match of a running loop the wake callback is invoked. A failed
\* transcription is caught inside detectWakeWord, which then returns false.
LoopTranscribed(l, result) ==
    /\ wwLoops[l].pc = "transcribing"
    /\ LET detected == result.ok /\ Detected(result.text)
           heard == [wwLoops[l] EXCEPT
                        !.ffmpeg = FALSE,
                        !.collected = 0,
                        !.heard = IF result.ok THEN "transcript" ELSE "failed",
                        !.transcript = result.text,
                        !.nFailures = IF result.ok THEN @ ELSE @ + 1]
       IN IF ShouldWake(detected, ww.running)
          THEN /\ wwLoops' = [wwLoops EXCEPT ![l] = [heard EXCEPT !.pc = "waking"]]
               /\ ww' = [ww EXCEPT !.wakeCalls = @ + 1]
          ELSE /\ MayIterate(wwLoops[l])
               /\ wwLoops' = [wwLoops EXCEPT ![l] = NextIteration(heard, ww.running)]
               /\ UNCHANGED ww
    /\ UNCHANGED nonWwVars

\* loop() lines 32-39: the wake callback settles. After a return the 2 s pause
\* starts; a callback that raised is caught and the 1 s pause starts.
LoopWakeReturned(l, ok) ==
    /\ wwLoops[l].pc = "waking"
    /\ wwLoops' = IF ok
                  THEN [wwLoops EXCEPT ![l].pc = "suppressPause"]
                  ELSE [wwLoops EXCEPT ![l].pc = CatchTarget, ![l].nFailures = @ + 1]
    /\ UNCHANGED ww
    /\ UNCHANGED nonWwVars

\* loop() lines 34 and 38: the pause elapses and the while check is taken.
LoopPauseElapsed(l) ==
    /\ wwLoops[l].pc \in {"suppressPause", "errorPause"}
    /\ MayIterate(wwLoops[l])
    /\ wwLoops' = [wwLoops EXCEPT ![l] = NextIteration(@, ww.running)]
    /\ UNCHANGED ww
    /\ UNCHANGED nonWwVars

\* A detector as its constructor leaves it, lines 7-12. startCalls, stopped,
\* wakeCalls (callback invocations) and orphans (subprocesses left running by
\* detectWakeWord) are counts the model keeps.
InitWW ==
    /\ ww = [running |-> FALSE, stopped |-> FALSE, startCalls |-> 0, wakeCalls |-> 0,
             orphans |-> 0]
    /\ wwLoops = <<>>

\* Any step of loop task l.
LoopStep(l) ==
    \/ \E live \in BOOLEAN : LoopAcquired(l, live)
    \/ \E bytes \in ChunkLengths : LoopCollected(l, bytes)
    \/ \E result \in TranscriptionResults : LoopTranscribed(l, result)
    \/ \E ok \in BOOLEAN : LoopWakeReturned(l, ok)
    \/ LoopPauseElapsed(l)

\* ------------------------------- camera-manager.ts: captureAndAnalyze
\* The awaits of one capture cycle, in the order the code reaches them:
\* getSnapshotUri (lines 195-205), the getProfiles/getStreamUri fallback
\* (211-222), the one-frame grab (246), the store write (249), the vision
\* call (251), handleDetections (253), the alarm log write (255-259).
CaptureStages ==
    {"snapshotUri", "fallbackProfiles", "frameGrab", "storeWrite", "vision",
     "detections", "logWrite"}

\* captureAndAnalyze with its outer try/catch taken away.
CaptureCatchesNothing(stage) == FALSE

\* captureAndAnalyze lines 187 and 262-264: the whole body runs inside one
\* try/catch, so a failure of any stage is caught.
CaptureCatches(stage) == stage \in CaptureStages

\* How a cycle ends when one of its stages fails.
FailureOutcome(stage) == IF CaptureCatches(stage) THEN "caught" ELSE "raised"

\* A cycle at its first await, lines 188-198; without a registered control
\* connection the call returns at line 190.
\* grabbed: grabRtspFrameAsDataUrl was called, on the URL named by source;
\* found: what the lookup of the URL found (camera.rtspUrl set, the stream
\* URI query supplying one);
\* snapshot: what snapshotSource holds; persisted and analysed: what was given
\* to store.upsertCamera and to vision.analyzeSnapshot.
NewCycle(attached) ==
    [pc |-> IF attached THEN "snapshotUri" ELSE "ended",
     outcome |-> IF attached THEN "running" ELSE "noCam",
     failedAt |-> "none", grabbed |-> FALSE, source |-> "none",
     found |-> [rtspUrl |-> FALSE, streamUri |-> FALSE], snapshot |-> "none",
     persisted |-> "none", analysed |-> "none"]

\* The stage a cycle goes to when its current stage succeeds; "ended" after
\* the last one. A failed getSnapshotUri is caught by the inner catch of line
\* 206 and leads into the fallback. hasRtspUrl and hasAlarms are what the
\* cycle finds (camera.rtspUrl set, visionResult.alarms not empty).
StageAfter(stage, ok, hasRtspUrl, hasAlarms) ==
    CASE stage = "snapshotUri" ->
           IF ok THEN "storeWrite"
           ELSE IF hasRtspUrl THEN "frameGrab" ELSE "fallbackProfiles"
      [] stage = "fallbackProfiles" -> "frameGrab"
      [] stage = "frameGrab" -> "storeWrite"
      [] stage = "storeWrite" -> "vision"
      [] stage = "vision" -> "detections"
      [] stage = "detections" -> IF hasAlarms THEN "logWrite" ELSE "ended"
      [] OTHER -> "ended"

\* The setInterval callback of attachCamera, lines 158-160, up to the first
\* await of captureAndAnalyze (lines 186-198).
CaptureTick ==
    /\ capture.armed
    /\ capture.ticks < MaxTicks
    /\ capture' = [capture EXCEPT !.ticks = @ + 1,
                                  !.cycles = Append(@, NewCycle(capture.attached))]
    /\ UNCHANGED nonCapVars

\* The await a cycle is suspended at settles, lines 195-261. ok: it resolved.
\* Only the failure of getSnapshotUri has a handler of its own; every other
\* failure ends the cycle.
\* The fallback with the synthesized default taken whatever was found.
FallbackSourceAlwaysDefault(hasRtspUrl, streamUri) == "default"

\* Lines 209-227: the URL the frame is grabbed from: camera.rtspUrl when set,
\* else the stream URI the control protocol supplies, else the default.
FallbackSource(hasRtspUrl, streamUri) ==
    IF hasRtspUrl THEN "configured" ELSE IF streamUri THEN "profile" ELSE "default"

\* streamUri: the getProfiles/getStreamUri query of the fallback supplied a
\* URL (on an error it resolves to undefined, lines 213 and 217, and the
\* default of line 226 is taken).
CycleStep(k, ok, hasRtspUrl, streamUri, hasAlarms) ==
    /\ k \in DOMAIN capture.cycles
    /\ capture.cycles[k].outcome = "running"
    \* each finding is read at one place only: camera.rtspUrl at line 209, the
    \* stream URI at line 218, visionResult.alarms at line 254
    /\ hasRtspUrl => capture.cycles[k].pc = "snapshotUri" /\ ~ok
    /\ streamUri => capture.cycles[k].pc = "fallbackProfiles" /\ ok
    /\ hasAlarms => capture.cycles[k].pc = "detections" /\ ok
    /\ LET cy == capture.cycles[k]
           next == StageAfter(cy.pc, ok, hasRtspUrl, hasAlarms)
           \* the URL line 246 grabs the frame from
           src == FallbackSource(hasRtspUrl, streamUri)
           \* what snapshotSource is assigned at line 195 or 246
           got == IF cy.pc = "snapshotUri" THEN "uri" ELSE "frame"
           after ==
               IF ~ok /\ cy.pc # "snapshotUri"
               THEN [cy EXCEPT !.pc = "ended", !.outcome = FailureOutcome(cy.pc),
                               !.failedAt = cy.pc]
               ELSE IF next = "ended"
               THEN [cy EXCEPT !.pc = "ended", !.outcome = "done"]
               ELSE IF next = "frameGrab"
               THEN [cy EXCEPT !.pc = next, !.grabbed = TRUE, !.source = src,
                               !.found = [rtspUrl |-> hasRtspUrl, streamUri |-> streamUri]]
               ELSE IF next = "storeWrite"
               THEN [cy EXCEPT !.pc = next, !.snapshot = got, !.persisted = got]
               ELSE IF next = "vision"
               THEN [cy EXCEPT !.pc = next, !.analysed = cy.snapshot]
               ELSE [cy EXCEPT !.pc = next]
       IN capture' = [capture EXCEPT
            !.cycles[k] = after,
            \* line 249: store.upsertCamera puts the descriptor in the list
            !.stored = IF after.pc = "storeWrite" THEN TRUE ELSE @,
            \* line 252: latestDetections.set(camera.id, visionResult)
            !.latest = IF after.pc = "detections" THEN k ELSE @]
    /\ UNCHANGED nonCapVars

\* detachCamera lines 165-183 for this camera: the control connection is
\* unregistered and the capture timer cleared.
CaptureDetach ==
    /\ capture.armed
    /\ capture' = [capture EXCEPT !.armed = FALSE, !.attached = FALSE]
    /\ UNCHANGED nonCapVars

\* The camera as attachCamera leaves it, lines 121 and 158-161.
\* DELETE /cameras/:id, admin.ts lines 56-65: detachCamera, then
\* store.removeCamera takes the descriptor out of the list.
AdminDelete ==
    /\ capture.armed
    /\ capture' = [capture EXCEPT !.armed = FALSE, !.attached = FALSE,
                                  !.stored = FALSE, !.removed = TRUE]
    /\ UNCHANGED nonCapVars

\* The camera as POST /cameras leaves it (attachCamera lines 121 and 158-161,
\* then store.upsertCamera): attached, its timer armed, its descriptor in the
\* store, no detection cached yet.
InitCap ==
    capture = [armed |-> TRUE, attached |-> TRUE, ticks |-> 0, cycles |-> <<>>,
               stored |-> TRUE, removed |-> FALSE, latest |-> 0]

NextCapture ==
    \/ CaptureTick
    \/ \E k \in DOMAIN capture.cycles, ok \in BOOLEAN, hasRtspUrl \in BOOLEAN,
          streamUri \in BOOLEAN, hasAlarms \in BOOLEAN :
             CycleStep(k, ok, hasRtspUrl, streamUri, hasAlarms)
    \/ CaptureDetach

\* The capture timer and its cycles with the admin's delete request.
NextDelete ==
    \/ CaptureTick
    \/ \E k \in DOMAIN capture.cycles, ok \in BOOLEAN, hasRtspUrl \in BOOLEAN,
          streamUri \in BOOLEAN, hasAlarms \in BOOLEAN :
             CycleStep(k, ok, hasRtspUrl, streamUri, hasAlarms)
    \/ AdminDelete

\* ------------------------------- camera-manager.ts: handleDetections
\* Cosine similarities as hundredths: 0.8 is 80.
Threshold == 80
\* The similarities a comparison may give: below, at and above the threshold.
Similarities == {75, 80, 85, 90}
\* A comparison that throws (caught at line 283).
CompareThrows == -1

\* store.snapshot.people, in the order of the store's list.
KnownOrder == <<"alice", "bob">>
KnownLists == {SubSeq(KnownOrder, 1, n) : n \in 0..Len(KnownOrder)}

\* One detected person, given by what cosineSimilarity answers for its
\* embedding against each known identity.
RowsFor(known) == [1..Len(known) -> Similarities \cup {CompareThrows}]

RECURSIVE PeopleUpTo(_, _)
PeopleUpTo(known, n) ==
    IF n = 0 THEN {<<>>}
    ELSE LET shorter == PeopleUpTo(known, n - 1)
         IN shorter \cup {Append(ps, row) : ps \in shorter, row \in RowsFor(known)}

NoBest == [k |-> 0, similarity |-> CompareThrows]

\* Lines 276-286: the inner loop over the known identities from position k
\* on, with the best found so far.
RECURSIVE BestFrom(_, _, _)
BestFrom(row, k, best) ==
    IF k > Len(row) THEN best
    ELSE IF row[k] = CompareThrows THEN BestFrom(row, k + 1, best)
    ELSE IF best = NoBest \/ row[k] > best.similarity
         THEN BestFrom(row, k + 1, [k |-> k, similarity |-> row[k]])
         ELSE BestFrom(row, k + 1, best)

\* Line 288 with >= in place of >.
IsMatchAtThreshold(best) == best # NoBest /\ best.similarity >= Threshold

\* Line 288: if (best && best.similarity > 0.8).
IsMatch(best) == best # NoBest /\ best.similarity > Threshold

NeverSeen == [camera |-> "none", at |-> 0]

\* StateStore.updateLastSeen, state.ts lines 119-123: the fields of the one
\* person with that id are set; at is the time, counted in updates.
UpdateLastSeen(lastSeen, personId, cameraId, at) ==
    IF personId \in DOMAIN lastSeen
    THEN [lastSeen EXCEPT ![personId] = [camera |-> cameraId, at |-> at]]
    ELSE lastSeen

\* handleDetections lines 267-274: the call starts; without people it
\* returns at once.
HandleDetections ==
    /\ matching.pc = "idle"
    /\ matching' = [matching EXCEPT !.pc = IF Len(matching.people) = 0 THEN "done"
                                           ELSE "matching"]
    /\ UNCHANGED nonHdVars

\* Lines 275-294: one turn of the loop over the detected people. A match is
\* pushed and its last-seen fields are written (the fields are set before the
\* awaited persist, which may fail and end the call); anyone else's embedding
\* is pushed to the unknown list.
MatchPerson(storeOk) ==
    /\ matching.pc = "matching"
    /\ LET j == matching.next
           best == BestFrom(matching.people[j], 1, NoBest)
           last == j = Len(matching.people)
       IN matching' =
            IF IsMatch(best)
            THEN [matching EXCEPT
                    !.matches = Append(@, [person |-> j, known |-> matching.known[best.k],
                                           similarity |-> best.similarity]),
                    !.lastSeen = UpdateLastSeen(@, matching.known[best.k], "cam1",
                                                matching.updates + 1),
                    !.updates = @ + 1,
                    !.next = j + 1,
                    !.pc = IF ~storeOk THEN "raised" ELSE IF last THEN "logMatches" ELSE @]
            ELSE [matching EXCEPT
                    !.unknownEmbeddings = Append(@, j),
                    !.next = j + 1,
                    !.pc = IF last THEN "logMatches" ELSE @]
    /\ UNCHANGED nonHdVars

\* Lines 296-311: the two log entries, each written only for a list that is
\* not empty; a failed write ends the call.
LogLists(storeOk) ==
    /\ matching.pc \in {"logMatches", "logUnknown"}
    /\ LET list == IF matching.pc = "logMatches" THEN matching.matches
                   ELSE matching.unknownEmbeddings
           after == IF matching.pc = "logMatches" THEN "logUnknown" ELSE "done"
       IN matching' =
            IF Len(list) = 0 THEN [matching EXCEPT !.pc = after]
            ELSE [matching EXCEPT !.logs = Append(@, [list |-> matching.pc, n |-> Len(list)]),
                                  !.pc = IF storeOk THEN after ELSE "raised"]
    /\ UNCHANGED nonHdVars

\* No call made: the known identities, never seen.
IdleMatching ==
    [pc |-> "idle", known |-> <<>>, people |-> <<>>, next |-> 1, matches |-> <<>>,
     unknownEmbeddings |-> <<>>, lastSeen |-> [p \in {} |-> NeverSeen], updates |-> 0,
     logs |-> <<>>]

InitHD == matching = IdleMatching

\* ---------------------------------------------------------------------------
\* withCreds (twoway-audio.ts): the credentials put into one candidate URL.
\* A URL is the sequence of its characters, led by the scheme prefix as one
\* element; an escape produced by encodeURIComponent is one element too.
\* ---------------------------------------------------------------------------
Prefix == "rtsp://"

\* The characters a candidate is made of: a host letter, a digit, and the three
\* delimiters of an authority.
UrlChars == {"h", "9", ":", "@", "/"}

Rests == UNION {[1..k -> UrlChars] : k \in 0..MaxUrlLen}

\* The credentials a descriptor can hold; an empty username is no username.
Usernames == {<<>>, <<"u">>, <<"u", "@">>}
Passwords == {<<>>, <<"p">>, <<"p", ":">>, <<"/", "p">>}

\* encodeURIComponent: the delimiters are escaped, letters and digits are kept.
EncodeChar(c) ==
    CASE c = "@" -> "%40"
      [] c = ":" -> "%3A"
      [] c = "/" -> "%2F"
      [] OTHER   -> c

EncodeURIComponent(str) == [i \in 1..Len(str) |-> EncodeChar(str[i])]

\* Index of the first / last occurrence of c in str, 0 when there is none.
FirstIndexOf(str, c) ==
    IF \E i \in 1..Len(str) : str[i] = c
    THEN CHOOSE i \in 1..Len(str) : str[i] = c /\ \A j \in 1..(i - 1) : str[j] # c
    ELSE 0

LastIndexOf(str, c) ==
    IF \E i \in 1..Len(str) : str[i] = c
    THEN CHOOSE i \in 1..Len(str) : str[i] = c /\ \A j \in (i + 1)..Len(str) : str[j] # c
    ELSE 0

\* The authority of what follows the prefix: the text before the first "/".
AuthorityOf(rest) ==
    LET slash == FirstIndexOf(rest, "/")
    IN IF slash = 0 THEN rest ELSE SubSeq(rest, 1, slash - 1)

PathOf(rest) ==
    LET slash == FirstIndexOf(rest, "/")
    IN IF slash = 0 THEN <<>> ELSE SubSeq(rest, slash, Len(rest))

\* The user-info of an authority ends at its last "@".
HostPortOf(rest) ==
    LET auth == AuthorityOf(rest)
    IN SubSeq(auth, LastIndexOf(auth, "@") + 1, Len(auth))

HostOf(rest) ==
    LET hp == HostPortOf(rest)
        colon == FirstIndexOf(hp, ":")
    IN IF colon = 0 THEN hp ELSE SubSeq(hp, 1, colon - 1)

PortOf(rest) ==
    LET hp == HostPortOf(rest)
        colon == FirstIndexOf(hp, ":")
    IN IF colon = 0 THEN <<>> ELSE SubSeq(hp, colon + 1, Len(hp))

MaxPortDigits == 4  \* a port of five nines is above 65535

\* new URL(u) for a URL of the rtsp scheme: it throws when user-info is
\* followed by no host, when a port is announced by no host, and when the port
\* is not a number of the port range.
ParseThrows(rest) ==
    LET auth == AuthorityOf(rest)
        hp == HostPortOf(rest)
        port == PortOf(rest)
    IN \/ LastIndexOf(auth, "@") > 0 /\ hp = <<>>
       \/ hp # <<>> /\ hp[1] = ":"
       \/ \E i \in 1..Len(port) : port[i] # "9"
       \/ Len(port) > MaxPortDigits

\* url.host: the host, and the port when there is one.
UrlHost(rest) ==
    IF PortOf(rest) = <<>> THEN HostOf(rest) ELSE HostOf(rest) \o <<":">> \o PortOf(rest)

\* replace(/^([^@]+)@/, ''): the text up to the first "@" is removed when at
\* least one character stands before it.
StripUserInfo(rest) ==
    LET at == FirstIndexOf(rest, "@")
    IN IF at >= 2 THEN SubSeq(rest, at + 1, Len(rest)) ELSE rest

WithCreds(camera, u) ==
    LET encUser == EncodeURIComponent(camera.username)
        encPass == EncodeURIComponent(camera.password)
        creds == <<Prefix>> \o encUser \o <<":">> \o encPass \o <<"@">>
    IN IF camera.username = <<>> THEN u
       ELSE IF u # <<>> /\ u[1] = Prefix /\ ~ParseThrows(Tail(u))
            THEN creds \o UrlHost(Tail(u)) \o PathOf(Tail(u))
            ELSE IF u # <<>> /\ u[1] = Prefix
                 THEN creds \o StripUserInfo(Tail(u))
                 ELSE creds \o u

NoInjection ==
    [camera |-> [username |-> <<>>, password |-> <<>>], cand |-> <<Prefix>>,
     url |-> <<>>, spawned |-> FALSE]

\* const url = withCreds(cand): the URL the subprocess of this candidate gets.
InjectCredentials ==
    /\ ~injection.spawned
    /\ injection' = [injection EXCEPT !.url = WithCreds(injection.camera, injection.cand),
                                      !.spawned = TRUE]
    /\ UNCHANGED nonCrVars

InitCR == injection = NoInjection


\* ---------------------------------------------------------------------------
\* StateStore (state.ts): the in-memory state, the file, and the writes that
\* persist() has started. The file is the sequence of its blocks, each block
\* marked with the state whose serialisation it was written from; a state
\* with more entries serialises to more blocks.
\* ---------------------------------------------------------------------------
StorePeople == {"alice", "bob"}

EmptyState == [logs |-> 0, cameras |-> EmptyMap, people |-> EmptyMap, seen |-> EmptyMap]

\* Number of blocks of JSON.stringify(state, null, 2).
Size(st) ==
    1 + st.logs + Cardinality(DOMAIN st.cameras) + Cardinality(DOMAIN st.people)
      + Cardinality(DOMAIN st.seen)

\* The file that holds exactly the serialisation of st.
FileOf(st) == [i \in 1..Size(st) |-> st]

\* fs.writeFile's write of data at the start of the file it opened: the
\* blocks behind the data stay what they were.
WriteAtStart(file, st) ==
    [i \in 1..(IF Len(file) > Size(st) THEN Len(file) ELSE Size(st)) |->
        IF i <= Size(st) THEN st ELSE file[i]]

\* The mutations, lines 77-78, 88-93, 99, 104-112 and 118-121; rev names the
\* call whose value an entry holds.
LogUnshift(st) == [st EXCEPT !.logs = @ + 1]
CameraSet(st, id, rev) == [st EXCEPT !.cameras = MapSet(@, id, rev)]
CameraFilter(st, id) == [st EXCEPT !.cameras = MapDelete(@, id)]
PersonSet(st, name, rev) == [st EXCEPT !.people = MapSet(@, name, rev)]
LastSeenSet(st, name, rev) == [st EXCEPT !.seen = MapSet(@, name, rev)]

\* persist(), line 68: the state is serialised when the call is made, and
\* fs.writeFile starts on that text.
Persist(store, st) ==
    [store EXCEPT !.state = st,
                  !.issued = @ + 1,
                  !.writes = Append(@, [snap |-> st, pc |-> "open"])]

\* An update call up to its await of persist(): the mutation, then persist().
StoreUpdate(st) ==
    /\ stateStore.issued < MaxUpdates
    /\ stateStore' = Persist(stateStore, st)
    /\ UNCHANGED nonSsVars

StoreAddLog == StoreUpdate(LogUnshift(stateStore.state))

StoreUpsertCamera(id) == StoreUpdate(CameraSet(stateStore.state, id, stateStore.issued + 1))

StoreRemoveCamera(id) == StoreUpdate(CameraFilter(stateStore.state, id))

StoreRegisterPerson(name) ==
    StoreUpdate(PersonSet(stateStore.state, name, stateStore.issued + 1))

\* updateLastSeen returns at line 117 when the person is not registered.
StoreUpdateLastSeen(name) ==
    /\ MapHas(stateStore.state.people, name)
    /\ StoreUpdate(LastSeenSet(stateStore.state, name, stateStore.issued + 1))

\* fs.writeFile opens the file for writing, which truncates it. The opens and
\* writes of different calls run on the thread pool in no fixed order.
WriteOpens(k) ==
    /\ stateStore.writes[k].pc = "open"
    /\ stateStore' = [stateStore EXCEPT !.file = <<>>, !.writes[k].pc = "write"]
    /\ UNCHANGED nonSsVars

\* fs.writeFile writes the text and closes; persist() and the update return.
WriteCompletes(k) ==
    /\ stateStore.writes[k].pc = "write"
    /\ stateStore' = [stateStore EXCEPT
           !.file = WriteAtStart(@, stateStore.writes[k].snap),
           !.writes[k].pc = "returned"]
    /\ UNCHANGED nonSsVars

\* After init(): the file holds the (empty) state.
InitSS ==
    stateStore = [state |-> EmptyState, file |-> FileOf(EmptyState), issued |-> 0,
                  writes |-> <<>>]

NextStore ==
    \/ StoreAddLog
    \/ \E id \in Cameras : StoreUpsertCamera(id)
    \/ \E id \in Cameras : StoreRemoveCamera(id)
    \/ \E name \in StorePeople : StoreRegisterPerson(name)
    \/ \E name \in StorePeople : StoreUpdateLastSeen(name)
    \/ \E k \in DOMAIN stateStore.writes : WriteOpens(k)
    \/ \E k \in DOMAIN stateStore.writes : WriteCompletes(k)

Init == InitVS /\ InitCM /\ InitRS /\ InitWW /\ InitCap /\ InitHD /\ InitCR /\ InitSS

SpecCapture == Init /\ [][NextCapture]_vars

SpecDelete == Init /\ [][NextDelete]_vars

SpecStore == Init /\ [][NextStore]_vars

\* A call of handleDetections for a vision result with up to MaxPeople people
\* against each list of known identities.
InitMatch ==
    /\ InitVS /\ InitCM /\ InitRS /\ InitWW /\ InitCap /\ InitCR /\ InitSS
    /\ \E known \in KnownLists : \E people \in PeopleUpTo(known, MaxPeople) :
          matching = [IdleMatching EXCEPT
                         !.known = known, !.people = people,
                         !.lastSeen = [p \in {known[k] : k \in 1..Len(known)} |-> NeverSeen]]

NextMatch ==
    \/ HandleDetections
    \/ \E storeOk \in BOOLEAN : MatchPerson(storeOk)
    \/ \E storeOk \in BOOLEAN : LogLists(storeOk)

SpecMatch == InitMatch /\ [][NextMatch]_vars

\* One candidate of a camera with each of the credentials, for every candidate
\* of the rtsp scheme of up to MaxUrlLen characters.
InitCreds ==
    /\ InitVS /\ InitCM /\ InitRS /\ InitWW /\ InitCap /\ InitHD /\ InitSS
    /\ \E username \in Usernames : \E password \in Passwords : \E rest \in Rests :
          injection = [NoInjection EXCEPT
                          !.camera = [username |-> username, password |-> password],
                          !.cand = <<Prefix>> \o rest]

NextCreds == InjectCredentials

SpecCreds == InitCreds /\ [][NextCreds]_vars

SpecResolver == Init /\ [][NextResolver]_vars

NextWake ==
    \/ StartCall
    \/ StopCall
    \/ \E l \in DOMAIN wwLoops, live \in BOOLEAN : LoopAcquired(l, live)
    \/ \E l \in DOMAIN wwLoops, bytes \in ChunkLengths : LoopCollected(l, bytes)
    \/ \E l \in DOMAIN wwLoops, result \in TranscriptionResults : LoopTranscribed(l, result)
    \/ \E l \in DOMAIN wwLoops, ok \in BOOLEAN : LoopWakeReturned(l, ok)
    \/ \E l \in DOMAIN wwLoops : LoopPauseElapsed(l)

SpecWake == Init /\ [][NextWake]_vars

\* What the transcription gives in the runs with restarts: the wake phrase,
\* silence, or a failure.
RestartResults ==
    {[ok |-> TRUE, text |-> WakeWord], [ok |-> TRUE, text |-> <<>>],
     [ok |-> FALSE, text |-> <<>>]}

\* The detector with every call its class offers: start() may follow stop().
NextRestart ==
    \/ StartCall
    \/ StopCall
    \/ StartAfterStop
    \/ \E l \in DOMAIN wwLoops, live \in BOOLEAN : LoopAcquired(l, live)
    \/ \E l \in DOMAIN wwLoops, bytes \in ChunkLengths : LoopCollected(l, bytes)
    \/ \E l \in DOMAIN wwLoops, result \in RestartResults : LoopTranscribed(l, result)
    \/ \E l \in DOMAIN wwLoops, ok \in BOOLEAN : LoopWakeReturned(l, ok)
    \/ \E l \in DOMAIN wwLoops : LoopPauseElapsed(l)

SpecRestart == Init /\ [][NextRestart]_vars

\* Every await of the loop settles in bounded time (probes, collection and
\* pauses are timed, the remote calls time out): a loop step that can be
\* taken is taken.
SpecWakeFair == SpecWake /\ WF_vars(\E l \in DOMAIN wwLoops : LoopStep(l))

\* CameraManager with attachCamera and detachCamera called one after the
\* other: a call is made only when no attachCamera is suspended, except one
\* that attachCamera rejects at entry and that therefore never suspends.
NextCM ==
    \/ \E info \in Descriptors : AttachStart(info)
    \/ \E c \in calls, ok \in BOOLEAN : AttachConnect(c, ok)
    \/ \E c \in calls : AttachPersistPort(c)
    \/ \E c \in calls : AttachLogFailure(c)
    \/ \E c \in calls, hasProfiles \in BOOLEAN : AttachProfiles(c, hasProfiles)
    \/ \E c \in calls : AttachStreamUri(c)
    \/ \E id \in Cameras, throws \in BOOLEAN : DetachCall(id, throws)
    \/ \E d \in detectors : LoopExit(d)

SpecCM == Init /\ [][NextCM]_vars

\* The lifecycle calls as the admin routes make them: a request is served
\* while the attachCamera of an earlier request is still suspended.
NextOverlap ==
    \/ \E info \in Descriptors : AttachOverlapping(info)
    \/ \E c \in calls, ok \in BOOLEAN : AttachConnect(c, ok)
    \/ \E c \in calls : AttachPersistPort(c)
    \/ \E c \in calls : AttachLogFailure(c)
    \/ \E c \in calls, hasProfiles \in BOOLEAN : AttachProfiles(c, hasProfiles)
    \/ \E c \in calls : AttachStreamUri(c)
    \/ \E id \in Cameras, throws \in BOOLEAN : DetachOverlapping(id, throws)
    \/ \E d \in detectors : LoopExit(d)

SpecOverlap == Init /\ [][NextOverlap]_vars

\* The session side of VoiceSessionManager: sessions, inbound events, tool
\* calls, idle-expiry timers. The input pump of every session is started by
\* StartSession; its own steps are those of SpecPump.
NextVS ==
    \/ \E cam \in Cameras : StartSession(cam)
    \/ \E w \in ConnIds : OnOpen(w)
    \/ \E w \in ConnIds, m \in InboundMessages : OnMessage(w, m)
    \/ \E p \in pendingTools, ok \in BOOLEAN : ToolReturn(p, ok)
    \/ \E t \in stopTimers : TimerFire(t)
    \/ \E w \in ConnIds : OnError(w)
    \/ \E w \in ConnIds : OnClose(w)
    \/ Tick

SpecVS == Init /\ [][NextVS]_vars

\* The session side with a remote end that also sends frames the handler is
\* not written for.
NextInbound ==
    \/ \E cam \in Cameras : StartSession(cam)
    \/ \E w \in ConnIds : OnOpen(w)
    \/ \E w \in ConnIds, m \in InboundMessages : OnMessage(w, m)
    \/ \E w \in ConnIds, m \in UnexpectedMessages : OnUnexpectedMessage(w, m)
    \/ \E p \in pendingTools, ok \in BOOLEAN : ToolReturn(p, ok)
    \/ \E t \in stopTimers : TimerFire(t)
    \/ \E w \in ConnIds : OnError(w)
    \/ \E w \in ConnIds : OnClose(w)
    \/ Tick

SpecInbound == Init /\ [][NextInbound]_vars

\* The input-pump side: sessions, their connections' life cycle and the pump
\* task of each (no inbound messages).
NextPump ==
    \/ \E cam \in Cameras : StartSession(cam)
    \/ \E w \in ConnIds : OnOpen(w)
    \/ \E t \in stopTimers : TimerFire(t)
    \/ \E w \in ConnIds : OnError(w)
    \/ \E w \in ConnIds : OnClose(w)
    \/ \E w \in ConnIds, live \in BOOLEAN : PumpAcquired(w, live)
    \/ \E w \in ConnIds : PumpData(w)
    \/ \E w \in ConnIds : Watchdog(w)
    \/ Tick

SpecPump == Init /\ [][NextPump]_vars

\* The sessions of one camera: the first started when the clock starts, the
\* next by a wake event half an idle period later.
WatchedSession ==
    /\ now = Len(conns) * TickMs
    /\ StartSession("cam1")

\* The pumps of one camera's sessions followed second by second: the source
\* delivers, goes silent or ends, the idle timer or the remote side closes
\* the connection, a wake event starts the next session.
NextWatch ==
    \/ WatchedSession
    \/ \E w \in ConnIds : OnOpen(w)
    \/ \E t \in stopTimers : TimerFire(t)
    \/ \E w \in ConnIds : OnClose(w)
    \/ \E w \in ConnIds, live \in BOOLEAN : PumpAcquired(w, live)
    \/ \E w \in ConnIds : PumpData(w)
    \/ \E w \in ConnIds : PumpEnd(w)
    \/ \E w \in ConnIds : Watchdog(w)
    \/ ClockSecond

SpecWatch == Init /\ [][NextWatch]_vars

\* Everything that sends on a session's connection: the 'open' handler, the
\* tool-call handlers and the input pump.
NextSend ==
    \/ \E cam \in Cameras : StartSession(cam)
    \/ \E w \in ConnIds : OnOpen(w)
    \/ \E w \in ConnIds, m \in InboundMessages : OnMessage(w, m)
    \/ \E p \in pendingTools, ok \in BOOLEAN : ToolReturn(p, ok)
    \/ \E w \in ConnIds : OnError(w)
    \/ \E w \in ConnIds : OnClose(w)
    \/ \E w \in ConnIds, live \in BOOLEAN : PumpAcquired(w, live)
    \/ \E w \in ConnIds : PumpData(w)
    \/ \E w \in ConnIds : Watchdog(w)
    \/ Tick

SpecSend == Init /\ [][NextSend]_vars

\* CameraManager together with the voice sessions its wake callback starts
\* and the input pump of each session.
NextSys ==
    \/ NextCM
    \/ \E d \in detectors : OnWake(d)
    \/ \E w \in ConnIds, live \in BOOLEAN : PumpAcquired(w, live)

SpecSys == Init /\ [][NextSys]_vars

\* loadFromState, camera-manager.ts lines 36-45: the stored cameras in the
\* order of the store's list.
LoadOrder == <<"cam1", "cam2">>

\* One turn of the for loop of loadFromState: the previous attachCamera has
\* settled (returned, or thrown and been skipped at line 41), and the next
\* stored camera is attached and awaited. The turn is the number of calls
\* made so far; creds tells whether the stored descriptor has credentials.
LoadAttach(creds) ==
    /\ calls = {}
    /\ callCount < Len(LoadOrder)
    /\ LET id == LoadOrder[callCount + 1]
       IN AttachStart([id |-> id, creds |-> creds, port |-> storeCameras[id].port])

\* The store as StateStore.init() read it: both cameras are in the list.
InitLoad ==
    /\ InitVS /\ InitRS /\ InitWW /\ InitCap /\ InitHD /\ InitCR /\ InitSS
    /\ onvifCameras = EmptyMap
    /\ wakeDetectors = EmptyMap
    /\ snapshotTimers = EmptyMap
    /\ liveCams = {}
    /\ detectors = {}
    /\ captureTimers = {}
    /\ calls = {}
    /\ storeCameras \in [Cameras -> [port : {NoPort, RtspPort, OtherPort},
                                      profileToken : {"none", "token"}]]
    /\ storeLogs = 0
    /\ persists = 0
    /\ attachSeq = 0
    /\ callCount = 0
    /\ lastCall = NoCall

\* Startup: loadFromState attaches the stored cameras.
NextLoad ==
    \/ \E creds \in BOOLEAN : LoadAttach(creds)
    \/ \E c \in calls, ok \in BOOLEAN : AttachConnect(c, ok)
    \/ \E c \in calls : AttachPersistPort(c)
    \/ \E c \in calls : AttachLogFailure(c)
    \/ \E c \in calls, hasProfiles \in BOOLEAN : AttachProfiles(c, hasProfiles)
    \/ \E c \in calls : AttachStreamUri(c)

SpecLoad == InitLoad /\ [][NextLoad]_vars

\* ===================================================== voice-session claims
ConnsOf(cam) == {w \in ConnIds : conns[w].cam = cam}
LiveConns(cam) == {w \in ConnsOf(cam) : conns[w].readyState \in {"CONNECTING", "OPEN"}}
TimersOf(w) == {t \in stopTimers : t.ws = w}
IsUnknownToolCall(m) ==
    m.type = "response.output_tool_call" /\ m.tool \notin ToolCatalogue

\* C3: at every moment a camera has at most one live transport connection
\* (connecting or open) and at most one session record, also when startSession
\* is called while a session of that camera is active.
C3_OneConnectionPerCamera ==
    /\ \A cam \in Cameras : Cardinality(LiveConns(cam)) <= 1
    /\ DOMAIN activeSessions \subseteq Cameras

\* C4: when startSession is called for a camera, every idle-expiry timer armed
\* for an earlier session of that camera is cancelled: right after the call the
\* only pending idle-expiry timer of the camera is the one the call armed.
C4_PriorTimersCancelled ==
    [][Len(conns') > Len(conns) =>
         \A t \in stopTimers' :
            conns'[t.ws].cam = conns'[Len(conns')].cam => t.ws = Len(conns')]_vars

\* C5: a session started while the camera already has a live connection adds
\* no further "closed" notification: the camera's notifications never outnumber
\* its sessions that were started while it had none.
C5_NoDoubleClosed ==
    \A cam \in Cameras :
        closedEmitted[cam] <= Cardinality({w \in ConnsOf(cam) : ~conns[w].whileActive})

\* C6: the step that handles a connection's close removes the camera's session
\* record, emits one "closed" notification, and leaves no idle-expiry timer of
\* that session pending.
C6_CloseReleasesSession ==
    [][\A w \in ConnIds :
         (conns[w].readyState # "CLOSED" /\ conns'[w].readyState = "CLOSED") =>
            /\ ~MapHas(activeSessions', conns[w].cam)
            /\ closedEmitted'[conns[w].cam] = closedEmitted[conns[w].cam] + 1
            /\ \A t \in stopTimers' : t.ws # w]_vars

\* C7: once a connection is closed and its pump has acquired its audio source,
\* the pump is stopped and the source released: the watchdog interval is
\* cleared, the audio listeners are removed (nothing more is sent) and the
\* extraction subprocess is no longer running.
C7_PumpReleasedOnClose ==
    \A w \in ConnIds :
        (conns[w].readyState = "CLOSED" /\ pumps[w].pc = "pumping") =>
            /\ ~pumps[w].interval
            /\ ~pumps[w].listening
            /\ ~pumps[w].ffmpeg

\* C8: a session has at most one idle-expiry timer pending (each response-
\* completed replaces the previous one), and an idle-initiated close happens
\* only a full idle period after the latest response-completed.
C8_IdleTimerRestarted ==
    \A w \in ConnIds :
        /\ Cardinality(TimersOf(w)) <= 1
        /\ ~conns[w].idleClosedEarly

\* C9: while a tool-call handler of a connection has not sent its tool-output,
\* no later inbound event of that connection has begun to be handled.
C9_ToolCallRunsToCompletion ==
    \A p \in pendingTools : conns[p.ws].nMsgs = p.callId

\* C10: the step that handles a tool-call request naming a tool outside the
\* catalogue sends one tool-output with the request's call id and the
\* unknown-tool result, and changes nothing else of the session: connection
\* state, session record, timers and suspended handlers stay as they were.
C10_UnknownToolAnswered ==
    [][\A w \in ConnIds :
         (/\ conns'[w].nMsgs = conns[w].nMsgs + 1
          /\ IsUnknownToolCall(conns'[w].lastMsg)) =>
            /\ conns'[w].sent =
                 Append(conns[w].sent, ToolOutput(conns'[w].nMsgs, "unknown_tool"))
            /\ conns'[w].readyState = conns[w].readyState
            /\ UNCHANGED <<activeSessions, stopTimers, pendingTools, closedEmitted>>]_vars

\* C10 witness: an open session answered an unknown tool call (its first
\* message) and then handled a later inbound event.
C10_Witness ==
    \E w \in ConnIds :
        /\ conns[w].readyState = "OPEN"
        /\ MapHas(activeSessions, conns[w].cam)
        /\ conns[w].nMsgs >= 2
        /\ ~IsUnknownToolCall(conns[w].lastMsg)
        /\ \E i \in 1..Len(conns[w].sent) : conns[w].sent[i] = ToolOutput(1, "unknown_tool")

\* ==================================================== camera-manager claims
CamsOf(id) == {h \in liveCams : h.id = id}
RunningLoopsOf(id) == {d \in detectors : d.id = id /\ d.running}
CaptureTimersOf(id) == {h \in captureTimers : h.id = id}

\* C1: when attachCamera has completed for an identity that was attached
\* already (no other call overlapping), that identity has exactly one control
\* connection, one running wake-phrase loop and one live capture timer, all
\* three created by this attach and registered in the manager's maps; those of
\* the earlier attachment are released.
C1_ReattachLeavesOneOfEach ==
    (lastCall.op = "attach" /\ lastCall.outcome = "ok" /\ lastCall.reattach /\ calls = {}) =>
        LET id == lastCall.info.id
            gen == lastCall.gen
        IN /\ CamsOf(id) = {Handle(id, gen)}
           /\ RunningLoopsOf(id) = {[id |-> id, gen |-> gen, running |-> TRUE]}
           /\ CaptureTimersOf(id) = {Handle(id, gen)}
           /\ MapHas(onvifCameras, id) /\ onvifCameras[id] = gen
           /\ MapHas(wakeDetectors, id) /\ wakeDetectors[id] = gen
           /\ MapHas(snapshotTimers, id) /\ snapshotTimers[id] = gen

\* C1 witness: a second re-attach of the same identity has completed while
\* the stopped loop task of an earlier attachment has not exited yet.
C1_Witness ==
    /\ lastCall.op = "attach" /\ lastCall.outcome = "ok" /\ lastCall.reattach
    /\ calls = {}
    /\ lastCall.gen >= 3
    /\ \E d \in detectors : d.id = lastCall.info.id /\ ~d.running

\* C2: a call of attachCamera with a descriptor without identity throws at
\* once and changes nothing: no connection, detector, loop, timer, suspended
\* call or store write is added, whatever the state it is made in.
C2_NoIdentityRejected ==
    [][(callCount' = callCount + 1 /\ lastCall'.op = "attach" /\ lastCall'.info.id = NoId) =>
         /\ lastCall'.outcome = "threw"
         /\ UNCHANGED <<onvifCameras, wakeDetectors, snapshotTimers, liveCams, detectors,
                        captureTimers, calls, storeCameras, storeLogs, persists, attachSeq>>
         /\ UNCHANGED vsVars]_vars

\* C2 witness: the rejected call was made while a camera was attached and
\* another attachCamera was suspended.
C2_Witness ==
    /\ lastCall.op = "attach" /\ lastCall.info.id = NoId /\ lastCall.outcome = "threw"
    /\ onvifCameras # EmptyMap
    /\ calls # {}

\* C12: a call of detachCamera(id) returns without raising, also when the
\* release of the control connection throws (the failure is logged); after it
\* the identity is in none of the three maps, its control connection is
\* released, its loop is stopped and its capture timer is cleared. When the
\* identity was not attached, the call changes nothing.
C12_DetachReleasesAll ==
    [][(callCount' = callCount + 1 /\ lastCall'.op = "detach") =>
         \A id \in Cameras : lastCall'.info.id = id =>
            /\ lastCall'.outcome \in {"ok", "warned"}
            /\ ~MapHas(onvifCameras', id)
            /\ ~MapHas(wakeDetectors', id)
            /\ ~MapHas(snapshotTimers', id)
            /\ \A h \in liveCams' : h.id # id
            /\ \A d \in detectors' : d.id = id => ~d.running
            /\ \A h \in captureTimers' : h.id # id
            /\ (~MapHas(onvifCameras, id) /\ ~MapHas(wakeDetectors, id)
                    /\ ~MapHas(snapshotTimers, id)) =>
                  UNCHANGED <<onvifCameras, wakeDetectors, snapshotTimers, liveCams,
                              detectors, captureTimers, calls, storeCameras, storeLogs,
                              persists, attachSeq>>]_vars

\* C12 witness: a detach of an attached camera has returned after the release
\* of its control connection threw.
C12_Witness ==
    /\ lastCall.op = "detach"
    /\ lastCall.outcome = "warned"
    /\ onvifCameras # EmptyMap

\* C11: when a call of detachCamera(id) returns, nothing of that camera is
\* still running: no capture timer, no idle-expiry timer of a voice session,
\* no inactivity watchdog of an input pump and no extraction subprocess.
C11_DetachLeavesNothingRunning ==
    [][(callCount' = callCount + 1 /\ lastCall'.op = "detach") =>
         \A id \in Cameras : lastCall'.info.id = id =>
            /\ \A h \in captureTimers' : h.id # id
            /\ \A t \in stopTimers' : conns'[t.ws].cam # id
            /\ \A w \in DOMAIN conns' :
                  conns'[w].cam = id => ~pumps'[w].interval /\ ~pumps'[w].ffmpeg]_vars

\* =========================================================== resolver claims
\* C13: while createAudioStream probes, the subprocesses of the attempts that
\* failed are terminated; and when every attempt failed its probe, the call
\* has returned a stream nothing was written to, and no subprocess it spawned
\* is running.
C13_AllFailedLeavesNothing ==
    /\ resolver.pc = "probing" => resolver.running \subseteq {resolver.attempt}
    /\ (resolver.pc = "returned" /\ ~resolver.live) =>
          /\ resolver.running = {}
          /\ ~resolver.written
          /\ resolver.stream = "open"

\* C13 witness: all thirty attempts of a camera with its own URL were tried
\* and the last one timed out.
C13_Witness ==
    /\ resolver.pc = "returned"
    /\ ~resolver.live
    /\ resolver.attempt = [c |-> 5, t |-> 2, m |-> 3]
    /\ resolver.lastOutcome = "timeout"

\* C14: at most one subprocess runs at a time; while the returned live stream
\* is open the subprocess that passed the probe is the one running (unless it
\* exited by itself), and once the stream is destroyed or has errored none is.
C14_OneSubprocessKilledOnClose ==
    /\ Cardinality(resolver.running) <= 1
    /\ (resolver.pc = "returned" /\ resolver.live) =>
          resolver.running =
             IF resolver.stream = "open" /\ ~resolver.ffExited
             THEN {resolver.attempt} ELSE {}

\* C14 witness: a later attempt passed the probe after an earlier one timed
\* out, and the returned stream has errored.
C14_Witness ==
    /\ resolver.pc = "returned"
    /\ resolver.live
    /\ resolver.attempt # FirstAttempt
    /\ resolver.stream = "errored"
    /\ ~resolver.ffExited

\* ====================================================== wake-phrase claims
\* Two characters are the same letter, whatever their case.
SameLetter(a, b) == a = b \/ {a, b} \in {{"h", "H"}, {"i", "I"}, {"x", "X"}}

\* The text contains the wake phrase as a substring, compared without case.
ContainsWakePhrase(text) ==
    \E k \in 0..(Len(text) - Len(WakeWord)) :
        \A j \in 1..Len(WakeWord) : SameLetter(text[k + j], WakeWord[j])

\* C15: the wake callback is invoked only in a step in which a loop receives
\* a transcript that contains the wake phrase; a loop fed transcripts without
\* it never invokes the callback.
C15_NoPhraseNoWake ==
    [][ww'.wakeCalls # ww.wakeCalls =>
         \E l \in DOMAIN wwLoops :
            /\ wwLoops[l].pc = "transcribing"
            /\ wwLoops'[l].heard = "transcript"
            /\ ContainsWakePhrase(wwLoops'[l].transcript)]_vars

\* C15 witness: a running loop started its second iteration after a
\* transcript with the letters of the phrase but not the phrase, and the
\* callback was never invoked.
C15_Witness ==
    /\ ww.running
    /\ ww.wakeCalls = 0
    /\ \E l \in DOMAIN wwLoops :
          /\ wwLoops[l].iter = 2
          /\ wwLoops[l].heard = "transcript"
          /\ wwLoops[l].transcript = <<"h", "x", "i">>

\* C16: the step in which a running loop receives a transcript that contains
\* the wake phrase invokes the wake callback once, and from the callback the
\* loop goes nowhere but into a pause: it starts no acquisition before the
\* pause has elapsed.
C16_WakeOncePerMatch ==
    [][\A l \in DOMAIN wwLoops :
         /\ (/\ wwLoops[l].pc = "transcribing"
             /\ wwLoops'[l].pc # "transcribing"
             /\ wwLoops'[l].heard = "transcript"
             /\ ContainsWakePhrase(wwLoops'[l].transcript)
             /\ ww.running) =>
               /\ ww'.wakeCalls = ww.wakeCalls + 1
               /\ wwLoops'[l].pc = "waking"
         /\ wwLoops[l].pc = "waking" =>
               wwLoops'[l].pc \in {"waking", "suppressPause", "errorPause"}
         /\ ww'.wakeCalls \in {ww.wakeCalls, ww.wakeCalls + 1}]_vars

\* C16 witness: a transcript with the phrase in another case and inside a
\* longer text woke the callback once, the pause elapsed and the loop started
\* its next acquisition.
C16_Witness ==
    /\ ww.wakeCalls = 1
    /\ \E l \in DOMAIN wwLoops :
          /\ wwLoops[l].pc = "acquiring"
          /\ wwLoops[l].iter = 2
          /\ wwLoops[l].transcript = <<"x", "h", "i">>

\* C17: a loop task ends only when the detector is stopped, and a running
\* loop whose iteration fails (the transcription fails, the wake callback
\* raises) goes into the error pause before it starts another iteration.
C17_FailureCaughtThenPause ==
    [][\A l \in DOMAIN wwLoops :
         /\ (wwLoops'[l].pc = "exited" /\ wwLoops[l].pc # "exited") => ~ww.running
         /\ (wwLoops'[l].nFailures > wwLoops[l].nFailures /\ ww.running) =>
               wwLoops'[l].pc = "errorPause"]_vars

\* C18: once stop() has been called no loop invokes the wake callback or
\* starts an acquisition, and every loop task ends.
C18_StopEndsLoop ==
    /\ [][ww.stopped =>
            /\ ww'.wakeCalls = ww.wakeCalls
            /\ \A l \in DOMAIN wwLoops : wwLoops'[l].iter = wwLoops[l].iter]_vars
    /\ (ww.stopped ~> \A l \in DOMAIN wwLoops : wwLoops[l].pc = "exited")

\* C18 witness: stop() came while the transcription was pending; the
\* transcript contained the phrase, the callback was not invoked, the task
\* has ended.
C18_Witness ==
    /\ ww.stopped
    /\ ww.wakeCalls = 0
    /\ \E l \in DOMAIN wwLoops :
          /\ wwLoops[l].pc = "exited"
          /\ wwLoops[l].heard = "transcript"
          /\ ContainsWakePhrase(wwLoops[l].transcript)

\* C19: a start() call on a running detector changes nothing but the count of
\* calls, and a detector never has more than one loop task.
C19_StartIdempotent ==
    [][/\ (ww'.startCalls # ww.startCalls /\ ww.running) =>
            (wwLoops' = wwLoops /\ ww'.running)
       /\ Len(wwLoops') <= 1]_vars

\* C19 witness: start() was called twice on a detector whose one loop is in
\* the middle of an iteration.
C19_Witness ==
    /\ ww.startCalls = 2
    /\ ww.running
    /\ Len(wwLoops) = 1
    /\ wwLoops[1].pc = "transcribing"

\* ======================================================== isolation claims
\* C20: while one camera's attach is suspended at an await (where it may
\* stall), the attach of the next stored camera, which starts that camera's
\* wake-phrase loop and capture timer, can be started.
C20_OtherCameraNotBlocked ==
    (calls # {} /\ callCount < Len(LoadOrder)) =>
        ENABLED (\E creds \in BOOLEAN : LoadAttach(creds))

\* ================================================== attach-failure claims
\* A step of a suspended attachCamera call in which a connect fails or the
\* failure is thrown.
FailingStep(c) ==
    /\ c \in calls
    /\ calls' # calls
    /\ \/ c.pc = "connect" /\ attachSeq' = attachSeq
       \/ c.pc = "logFailure"

\* What the manager holds for one identity.
HoldingsOf(id) ==
    [cams |-> CamsOf(id), loops |-> {d \in detectors : d.id = id},
     timers |-> CaptureTimersOf(id),
     registered |-> <<MapHas(onvifCameras, id), MapHas(wakeDetectors, id),
                      MapHas(snapshotTimers, id)>>]

\* C21: an attachCamera call whose connect fails on its last candidate port
\* appends one error log entry and then throws; no step of the failing call
\* registers a control connection, a running loop or a capture timer for its
\* identity, and every step of the call, its entry included, leaves the
\* connections, loops and timers of every other identity as they were.
C21_FailedAttachIsolated ==
    [][/\ \A c \in calls : FailingStep(c) =>
             /\ (c.pc = "connect" /\ Len(c.ports) = 1) =>
                   (storeLogs' = storeLogs + 1 /\ \E c2 \in calls' : c2.pc = "logFailure")
             /\ c.pc = "logFailure" =>
                   (/\ calls' = {}
                    /\ lastCall'.outcome = "threw"
                    /\ lastCall'.info.id = c.info.id)
             /\ CamsOf(c.info.id)' = {}
             /\ RunningLoopsOf(c.info.id)' = {}
             /\ CaptureTimersOf(c.info.id)' = {}
             /\ HoldingsOf(c.info.id)'.registered = <<FALSE, FALSE, FALSE>>
             /\ \A other \in Cameras \ {c.info.id} : HoldingsOf(other)' = HoldingsOf(other)
       /\ (callCount' = callCount + 1 /\ lastCall'.op = "attach") =>
             \A other \in Cameras \ {lastCall'.info.id} : HoldingsOf(other)' = HoldingsOf(other)]_vars

\* C21 witness: the re-attach of an attached camera failed on its only
\* candidate port and threw, while the other camera stays attached with its
\* loop running and its capture timer armed.
C21_Witness ==
    /\ lastCall.op = "attach" /\ lastCall.outcome = "threw" /\ lastCall.reattach
    /\ lastCall.info.id \in Cameras /\ lastCall.info.creds
    /\ calls = {}
    /\ storeLogs >= 1
    /\ HoldingsOf(lastCall.info.id).cams = {}
    /\ \E other \in Cameras \ {lastCall.info.id} :
          /\ MapHas(onvifCameras, other)
          /\ RunningLoopsOf(other) # {}
          /\ CaptureTimersOf(other) # {}

\* ========================================================= capture claims
\* C22: no capture cycle ends by raising, whichever stage failed; the step in
\* which a cycle fails leaves the capture timer armed and the other cycles as
\* they were; and a tick after it starts a cycle at its first stage, the same
\* cycle it would start had nothing failed.
C22_CaptureFailureCaught ==
    /\ [](\A k \in DOMAIN capture.cycles : capture.cycles[k].outcome # "raised")
    /\ [][\A k \in DOMAIN capture.cycles :
            (capture.cycles[k].outcome = "running"
                /\ capture'.cycles[k].outcome \notin {"running", "done"}) =>
               /\ capture'.cycles[k].outcome = "caught"
               /\ capture'.armed = capture.armed
               /\ capture'.ticks = capture.ticks
               /\ \A j \in DOMAIN capture.cycles \ {k} :
                     capture'.cycles[j] = capture.cycles[j]]_vars
    /\ [][Len(capture'.cycles) > Len(capture.cycles) =>
            /\ capture.armed /\ capture'.armed
            /\ capture'.cycles = Append(capture.cycles, NewCycle(TRUE))]_vars

\* C22 witness: cycles failed at the frame grab and at the vision call, the
\* timer is still armed, and a cycle started after them ran to its end.
C22_Witness ==
    /\ capture.armed
    /\ Len(capture.cycles) = 3
    /\ capture.cycles[1].outcome = "caught" /\ capture.cycles[1].failedAt = "frameGrab"
    /\ capture.cycles[2].outcome = "caught" /\ capture.cycles[2].failedAt = "vision"
    /\ capture.cycles[3].outcome = "done"

\* ======================================================== matching claims
\* The similarities of person j that could be computed.
Computed(j) ==
    {matching.people[j][k] : k \in {i \in 1..Len(matching.known) :
                                       matching.people[j][i] # CompareThrows}}

\* Person j has a known identity closer than the threshold.
Recognised(j) == \E sim \in Computed(j) : sim > Threshold

IsLargest(sim, sims) == sim \in sims /\ \A other \in sims : other <= sim

MatchesOf(j) == {i \in 1..Len(matching.matches) : matching.matches[i].person = j}
UnknownsOf(j) ==
    {i \in 1..Len(matching.unknownEmbeddings) : matching.unknownEmbeddings[i] = j}
KnownIndex(name) == CHOOSE k \in 1..Len(matching.known) : matching.known[k] = name

\* C23: every person the loop has handled is in exactly one of the two lists,
\* once: in the matches, with an identity whose similarity is the largest
\* computed, when that largest similarity is above 0.8; in the unknown list,
\* with its embedding, otherwise (at or below 0.8, nothing computed, nobody
\* known). The last-seen fields written are those of the matched identities and
\* no others, one write per match; when the call is done the two lists
\* together hold every detected person.
C23_EachPersonClassifiedOnce ==
    /\ \A j \in 1..(matching.next - 1) :
          /\ Cardinality(MatchesOf(j)) + Cardinality(UnknownsOf(j)) = 1
          /\ Cardinality(MatchesOf(j)) = 1 <=> Recognised(j)
          /\ \A i \in MatchesOf(j) :
                /\ matching.matches[i].known \in DOMAIN matching.lastSeen
                /\ matching.people[j][KnownIndex(matching.matches[i].known)]
                      = matching.matches[i].similarity
                /\ IsLargest(matching.matches[i].similarity, Computed(j))
    /\ \A j \in matching.next..Len(matching.people) : MatchesOf(j) \cup UnknownsOf(j) = {}
    /\ Len(matching.matches) + Len(matching.unknownEmbeddings) = matching.next - 1
    /\ matching.updates = Len(matching.matches)
    /\ \A p \in DOMAIN matching.lastSeen :
          IF \E i \in 1..Len(matching.matches) : matching.matches[i].known = p
          THEN matching.lastSeen[p].camera = "cam1"
          ELSE matching.lastSeen[p] = NeverSeen
    /\ matching.pc = "done" =>
          Len(matching.matches) + Len(matching.unknownEmbeddings) = Len(matching.people)

\* C23 witness: of two people the first was matched at 0.85 to the second
\* known identity (0.75 against the first), the second person, at 0.75 and
\* 0.80, was counted as unknown; the call is done.
C23_Witness ==
    /\ matching.pc = "done"
    /\ matching.known = KnownOrder
    /\ matching.people = <<<<75, 85>>, <<75, 80>>>>
    /\ matching.matches = <<[person |-> 1, known |-> "bob", similarity |-> 85]>>
    /\ matching.unknownEmbeddings = <<2>>
    /\ matching.lastSeen["bob"].camera = "cam1"
    /\ matching.lastSeen["alice"] = NeverSeen

\* ========================================================== opening claims
\* C24: whatever a connection has sent starts with the session configuration
\* (modalities, instructions naming the connection's camera, the tool
\* catalogue) followed by the initial response request: no audio append, audio
\* commit or tool output comes before them, and a connection that is not open
\* yet has sent nothing.
C24_ConfigurationSentFirst ==
    \A w \in ConnIds :
        /\ conns[w].readyState = "CONNECTING" => conns[w].sent = <<>>
        /\ conns[w].sent # <<>> =>
              /\ Len(conns[w].sent) >= 2
              /\ conns[w].sent[1].type = "session.update"
              /\ conns[w].sent[1].instructions = conns[w].cam
              /\ conns[w].sent[1].tools = ToolCatalogue
              /\ conns[w].sent[1].modalities # {}
              /\ conns[w].sent[2].type = "response.create"
              /\ \A i \in 3..Len(conns[w].sent) :
                    conns[w].sent[i].type \in
                        {"input_audio_buffer.append", "input_audio_buffer.commit",
                         "response.tool_output"}

\* C24 witness: a connection sent the two opening messages, then an audio
\* append and a tool output.
C24_Witness ==
    \E w \in ConnIds :
        /\ Len(conns[w].sent) = 4
        /\ conns[w].sent[3].type = "input_audio_buffer.append"
        /\ conns[w].sent[4].type = "response.tool_output"

\* ===================================================== resolver-order claims
Spawned == resolver.spawned
\* Reliable before unreliable.
TransportRank(t) == IF t = "tcp" THEN 0 ELSE IF t = "udp" THEN 1 ELSE 2
\* Named audio track, any audio track, positional second stream.
MappingRank(m) == IF m = "0:a:0" THEN 0 ELSE IF m = "0:a" THEN 1 ELSE IF m = "0:1" THEN 2 ELSE 3
\* The transport/strategy combinations of one URL.
CombosPerUrl == 6

\* C25: the k-th subprocess spawned for a URL (k = 0..5) uses transport tcp
\* for k < 3 and udp after, and the mappings named track, any track,
\* positional stream in that order within each transport; a subprocess is
\* spawned only in a step in which the attempt before it failed its probe,
\* and none is spawned once an attempt has yielded data.
C25_TransportThenStrategyOrder ==
    /\ [](\A i \in 1..Len(Spawned) :
            LET k == (i - 1) % CombosPerUrl
            IN /\ TransportRank(Spawned[i].transport) = k \div 3
               /\ MappingRank(Spawned[i].mapping) = k % 3
               /\ Spawned[i].url = Spawned[i - k].url)
    /\ [][Len(resolver'.spawned) > Len(resolver.spawned) /\ Len(resolver.spawned) > 0 =>
            /\ Len(resolver'.spawned) = Len(resolver.spawned) + 1
            /\ resolver.pc = "probing"
            /\ resolver'.lastOutcome \in {"timeout", "error", "close"}
            /\ ~resolver'.live]_vars
    /\ [][resolver.live => resolver'.spawned = resolver.spawned]_vars

\* C25 witness: the first URL yielded data on its last combination, udp with
\* the positional stream, after the five before it had failed; the stream was
\* returned.
C25_Witness ==
    /\ resolver.pc = "returned"
    /\ resolver.live
    /\ Len(Spawned) = CombosPerUrl
    /\ Spawned[1].transport = "tcp" /\ Spawned[1].mapping = "0:a:0"
    /\ Spawned[CombosPerUrl].transport = "udp" /\ Spawned[CombosPerUrl].mapping = "0:1"

\* The default paths synthesized from the host, in the order they are tried.
DefaultPaths == <<"stream1", "stream2", "live/main", "live/sub">>

\* The URLs in the priority order the specification document gives: dedicated
\* audio URL, primary video URL, default paths.
UrlsAudioFirst ==
    (IF resolver.camera.rtspAudioUrl THEN <<"rtspAudioUrl">> ELSE <<>>)
        \o (IF resolver.camera.rtspUrl THEN <<"rtspUrl">> ELSE <<>>) \o DefaultPaths

\* The URLs in the priority order without a dedicated audio URL.
UrlsVideoFirst ==
    (IF resolver.camera.rtspUrl THEN <<"rtspUrl">> ELSE <<>>) \o DefaultPaths

\* The spawns follow the list urls, six combinations for each URL.
SpawnedFollows(urls) ==
    \A i \in 1..Len(Spawned) :
        LET n == (i - 1) \div CombosPerUrl + 1
        IN n <= Len(urls) /\ Spawned[i].url = urls[n]

C28_PortChoiceAndCorrection ==
    [][/\ \A c \in calls' \ calls :
             (callCount' = callCount + 1) =>
                c.ports = IF c.info.port \notin {NoPort, RtspPort}
                          THEN <<c.info.port>> ELSE <<80>>
       /\ \A c \in calls :
             (c.pc = "connect" /\ attachSeq' = attachSeq + 1) =>
                LET port == c.ports[1]
                    id == c.info.id
                IN IF port # c.info.port
                   THEN /\ persists' = persists + 1
                        /\ MapHas(storeCameras', id) /\ storeCameras'[id].port = port
                        /\ \A c2 \in calls' : c2.info.port = port
                        /\ \A other \in DOMAIN storeCameras \ {id} :
                              MapHas(storeCameras', other)
                                 /\ storeCameras'[other] = storeCameras[other]
                   ELSE /\ persists' = persists
                        /\ storeCameras' = storeCameras
                        /\ \A c2 \in calls' : c2.info.port = c.info.port]_vars

\* C28 witness: one camera was attached with port 554 and has port 80 in the
\* store; then a camera was attached on its explicit port 2020, for which no
\* port was written.
C28_Witness ==
    /\ lastCall.op = "attach" /\ lastCall.outcome = "ok"
    /\ lastCall.info.port = OtherPort
    /\ ~MapHas(storeCameras, lastCall.info.id)
    /\ \E other \in DOMAIN storeCameras : storeCameras[other].port = OnvifDefaultPort
    /\ persists = 1

\* ======================================================== inbound claims
\* C29: the step that handles an inbound frame that is not JSON, or a
\* tool-call request without tool descriptor, or a message of another kind,
\* lets no error out of the handler, sends nothing, and leaves the
\* connection, the session record, the timers and the suspended handlers as
\* they were.
C29_MalformedIgnored ==
    [][\A w \in ConnIds :
         (/\ conns'[w].nMsgs = conns[w].nMsgs + 1
          /\ conns'[w].lastMsg \in UnexpectedMessages) =>
            /\ conns'[w].rejected = conns[w].rejected
            /\ conns'[w].sent = conns[w].sent
            /\ conns'[w].readyState = conns[w].readyState
            /\ UNCHANGED <<activeSessions, stopTimers, pendingTools, closedEmitted>>]_vars

\* ======================================================= disposal claims
\* C30: whenever a loop begins an acquisition or has exited, no extraction
\* subprocess acquired by one of its earlier iterations is still running:
\* every iteration, however it ended, disposed the pipeline it acquired.
C30_PipelineDisposedEveryIteration ==
    /\ ww.orphans = 0
    /\ \A l \in DOMAIN wwLoops :
          wwLoops[l].pc \in {"acquiring", "exited"} => ~wwLoops[l].ffmpeg

\* ---------------------------------------------------------------------------
\* C26: for a camera that has a username, the URL handed to the subprocess has
\* exactly the camera's percent-encoded username and password as its user-info
\* (the text of its authority before the last "@"), so nothing of a user-info
\* the candidate had is left in it; for a camera without a username the URL is
\* the candidate unchanged.
\* ---------------------------------------------------------------------------
UserInfoOf(u) ==
    LET auth == AuthorityOf(Tail(u))
        at == LastIndexOf(auth, "@")
    IN IF at = 0 THEN <<>> ELSE SubSeq(auth, 1, at - 1)

EncodedCreds(camera) ==
    EncodeURIComponent(camera.username) \o <<":">> \o EncodeURIComponent(camera.password)

C26_CredentialsAreTheUserInfo ==
    injection.spawned =>
        IF injection.camera.username = <<>>
        THEN injection.url = injection.cand
        ELSE /\ injection.url[1] = Prefix
             /\ UserInfoOf(injection.url) = EncodedCreds(injection.camera)


\* ---------------------------------------------------------------------------
\* C31: every tool-call request is answered by exactly one tool-output with
\* the request's call identifier and the result of that call: the step that
\* handles the request either sends it or suspends the handler, and the step
\* in which a suspended handler settles, in whatever order the handlers
\* settle and whether the call succeeded or failed, sends that handler's
\* tool-output and nothing else on its connection.
\* ---------------------------------------------------------------------------
C31_EveryToolCallAnswered ==
    [][/\ \A w \in ConnIds :
            (/\ conns'[w].nMsgs = conns[w].nMsgs + 1
             /\ conns'[w].lastMsg.type = "response.output_tool_call"
             /\ conns'[w].rejected = conns[w].rejected) =>
                \/ \E p \in pendingTools' \ pendingTools :
                       p.ws = w /\ p.callId = conns'[w].nMsgs /\ conns'[w].sent = conns[w].sent
                \/ conns'[w].sent =
                       Append(conns[w].sent,
                              ToolOutput(conns'[w].nMsgs,
                                         HandleToolCall(conns'[w].lastMsg.tool).output))
       /\ \A p \in pendingTools \ pendingTools' :
            conns'[p.ws].sent =
                Append(conns[p.ws].sent, ToolOutput(p.callId, HandleToolCall(p.name).output))]_vars

\* ---------------------------------------------------------------------------
\* C32: once every update call issued on the store has returned, the file
\* holds exactly the serialisation of the in-memory state, which contains
\* every one of the updates.
\* ---------------------------------------------------------------------------
C32_FileEqualsStateWhenQuiet ==
    (\A k \in DOMAIN stateStore.writes : stateStore.writes[k].pc = "returned") =>
        stateStore.file = FileOf(stateStore.state)

\* ---------------------------------------------------------------------------
\* C33: once every attachCamera and detachCamera call has returned, an
\* identity has at most one running wake-phrase loop and at most one live
\* capture timer, and each of them is the one registered in the manager's
\* maps, whatever the interleaving of the overlapping calls was.
\* ---------------------------------------------------------------------------
C33_OverlappingCallsLeaveNoOrphan ==
    calls = {} =>
        \A id \in Cameras :
            /\ \A d \in RunningLoopsOf(id) :
                   MapHas(wakeDetectors, id) /\ wakeDetectors[id] = d.gen
            /\ \A h \in CaptureTimersOf(id) :
                   MapHas(snapshotTimers, id) /\ snapshotTimers[id] = h.gen

\* ---------------------------------------------------------------------------
\* C34: a detector has one loop executing at most: a loop task starts a new
\* iteration only when no other loop task of the detector is alive, also when
\* start() followed stop() while the old loop's iteration was in flight.
\* ---------------------------------------------------------------------------
C34_OneLoopExecuting ==
    [][\A l \in DOMAIN wwLoops :
          wwLoops'[l].iter > wwLoops[l].iter =>
             \A m \in DOMAIN wwLoops : m # l => wwLoops[m].pc = "exited"]_vars

\* ---------------------------------------------------------------------------
\* C35: once the camera has been detached and removed from the store, no
\* later step writes its descriptor back into the store's camera list.
\* ---------------------------------------------------------------------------
C35_RemovedStaysRemoved == capture.removed => ~capture.stored

\* ---------------------------------------------------------------------------
\* C37: the cached latest detection is never replaced by the result of a
\* cycle that started before the cycle whose result is cached (cycles are
\* numbered in the order their ticks started them).
\* ---------------------------------------------------------------------------
C37_LatestNeverGoesBack == [][capture'.latest >= capture.latest]_vars

\* ---------------------------------------------------------------------------
\* C39: in a capture cycle the one-frame grab is attempted exactly when the
\* snapshot request failed (and the lookup of a streaming URL, where one was
\* needed, has come back); the frame is grabbed from the synthesized default
\* only when the camera has no configured URL and the stream-URI query
\* supplied none; and what is persisted and what is sent to vision analysis
\* is the snapshot the cycle obtained: the reference when the request
\* succeeded, the grabbed frame otherwise.
\* ---------------------------------------------------------------------------
SnapshotRequestFailed(cy) ==
    \/ cy.pc \in {"fallbackProfiles", "frameGrab"}
    \/ cy.failedAt \in {"fallbackProfiles", "frameGrab"}
    \/ cy.snapshot = "frame"

LookupPending(cy) == cy.pc = "fallbackProfiles" \/ cy.failedAt = "fallbackProfiles"

PastSnapshot(cy) ==
    \/ cy.pc \in {"storeWrite", "vision", "detections", "logWrite"}
    \/ cy.failedAt \in {"storeWrite", "vision", "detections", "logWrite"}
    \/ cy.outcome = "done"

C39_FallbackOnlyOnFailure ==
    \A k \in DOMAIN capture.cycles :
        LET cy == capture.cycles[k]
        IN /\ cy.grabbed <=> (SnapshotRequestFailed(cy) /\ ~LookupPending(cy))
           /\ cy.source = "default" => ~cy.found.rtspUrl /\ ~cy.found.streamUri
           /\ cy.grabbed /\ cy.source # "default" => cy.found.rtspUrl \/ cy.found.streamUri
           /\ PastSnapshot(cy) =>
                 /\ cy.snapshot = (IF cy.grabbed THEN "frame" ELSE "uri")
                 /\ cy.persisted = cy.snapshot
           /\ cy.analysed # "none" => cy.analysed = cy.snapshot
           /\ (cy.pc \in {"vision", "detections", "logWrite"} \/ cy.outcome = "done") =>
                 cy.analysed = cy.snapshot

\* C39 witness: one cycle got the snapshot reference from the control
\* protocol and grabbed nothing; another, whose request failed and whose
\* lookup found no URL, grabbed its frame from the default; a third grabbed
\* from the configured URL; all three ran to their end.
C39_Witness ==
    /\ Len(capture.cycles) = 3
    /\ \A k \in 1..3 : capture.cycles[k].outcome = "done"
    /\ ~capture.cycles[1].grabbed /\ capture.cycles[1].analysed = "uri"
    /\ capture.cycles[2].source = "default" /\ capture.cycles[2].analysed = "frame"
    /\ capture.cycles[3].source = "configured" /\ capture.cycles[3].persisted = "frame"

\* ---------------------------------------------------------------------------
\* C36: an event of a connection that a newer, still live session of the
\* same camera has superseded (its close, or an inbound event such as
\* response-completed) leaves the session record as it is and cancels no
\* idle-expiry timer of another connection.
\* ---------------------------------------------------------------------------
Superseded(w) ==
    \E newer \in ConnIds :
        /\ newer > w
        /\ conns[newer].cam = conns[w].cam
        /\ conns[newer].readyState \in {"CONNECTING", "OPEN"}

C36_SupersededLeavesNewerAlone ==
    [][\A w \in ConnIds :
         (/\ Superseded(w)
          /\ \/ conns[w].readyState # "CLOSED" /\ conns'[w].readyState = "CLOSED"
             \/ conns'[w].nMsgs = conns[w].nMsgs + 1) =>
            /\ activeSessions' = activeSessions
            /\ {t \in stopTimers : t.ws # w} \subseteq stopTimers']_vars

\* ---------------------------------------------------------------------------
\* C38: the inactivity check sends a buffer-commit only when the connection
\* is open and no chunk arrived during the inactivity window before it; the
\* window starts again with the commit, so the commit before it is more than
\* one window back; and an append or a commit, whatever sends it, is sent
\* only on an open connection.
\* ---------------------------------------------------------------------------
IsPumpEvent(msg) == msg.type \in {"input_audio_buffer.append", "input_audio_buffer.commit"}

WindowPassedSince(at) == at = -1 \/ now - at > InactivityTimeoutMs

C38_WatchdogCommitsAfterSilence ==
    [][\A w \in ConnIds :
         /\ (/\ Len(conns'[w].sent) = Len(conns[w].sent) + 1
             /\ IsPumpEvent(conns'[w].sent[Len(conns'[w].sent)])) =>
               conns[w].readyState = "OPEN"
         /\ (/\ conns'[w].sent = Append(conns[w].sent, [type |-> "input_audio_buffer.commit"])
             /\ pumps'[w].interval) =>
               /\ conns[w].readyState = "OPEN"
               /\ WindowPassedSince(pumps[w].chunkAt)
               /\ WindowPassedSince(pumps[w].commitAt)
               /\ pumps'[w].lastChunkTs = now]_vars

\* C38 witness: the source of an open session delivered a chunk and went
\* silent; the watchdog, still armed, has committed twice
\* (the session was superseded, so no idle timer closes its connection).
C38_Witness ==
    \E w \in ConnIds :
        /\ conns[w].readyState = "OPEN"
        /\ pumps[w].interval
        /\ pumps[w].chunkAt >= 0
        /\ pumps[w].commitAt > pumps[w].chunkAt + 2 * InactivityTimeoutMs
        /\ Cardinality({i \in 1..Len(conns[w].sent) :
                           conns[w].sent[i].type = "input_audio_buffer.commit"}) = 2

\* ---------------------------------------------------------------------------
\* C40: a collection of fewer bytes than the minimum, the empty one included,
\* is dropped: the loop goes to its next iteration (or ends) without a
\* transcription request, without a transcript and without invoking the wake
\* callback. A transcription request is issued only at the end of a
\* collection of at least the minimum, and the wake callback is invoked only
\* on the transcript of such a collection.
\* ---------------------------------------------------------------------------
C40_ShortChunkDiscarded ==
    [][/\ \A l \in DOMAIN wwLoops :
            /\ (wwLoops[l].pc = "collecting" /\ wwLoops'[l].pc # "collecting"
                    /\ wwLoops'[l].collected < MinWakeBytes) =>
                  /\ wwLoops'[l].pc \in {"acquiring", "exited"}
                  /\ wwLoops'[l].heard = wwLoops[l].heard
                  /\ wwLoops'[l].transcript = wwLoops[l].transcript
                  /\ ww'.wakeCalls = ww.wakeCalls
            /\ (wwLoops'[l].pc = "transcribing" /\ wwLoops[l].pc # "transcribing") =>
                  /\ wwLoops[l].pc = "collecting"
                  /\ wwLoops'[l].collected >= MinWakeBytes
       /\ ww'.wakeCalls # ww.wakeCalls =>
            \E l \in DOMAIN wwLoops :
                /\ wwLoops[l].pc = "transcribing"
                /\ wwLoops[l].collected >= MinWakeBytes
                /\ wwLoops'[l].pc = "waking"]_vars

\* C40 witness: a live stream gave fewer bytes than the minimum in the loop's
\* first iteration; the loop is in its second, nothing was transcribed and
\* the wake callback was not invoked.
C40_Witness ==
    \E l \in DOMAIN wwLoops :
        /\ wwLoops[l].iter = 2
        /\ wwLoops[l].pc = "acquiring"
        /\ wwLoops[l].collected = MinWakeBytes - 1
        /\ wwLoops[l].heard = "none"
        /\ ww.wakeCalls = 0

====
